---------------------------- MODULE Spec2Model ----------------------------
(***************************************************************************)
(* FireLaunch: the bounded task pool (utils/parallel.rs), the content      *)
(* store (storage.rs), the asset index (structures/asset_index.rs) and the *)
(* asset synchronisation run of the async worker (gui/async_worker.rs).    *)
(*                                                                         *)
(* SpecPool  : a caller driving one Parallelise pool as in its doc example *)
(* Spec      : one AsyncWorkerModel receiving DownloadAssets commands      *)
(* FairSpec  : Spec with the fairness the tokio runtime gives its tasks    *)
(***************************************************************************)
EXTENDS Integers, Sequences, FiniteSets, TLC

VARIABLES
    \* ---- utils/parallel.rs : Parallelise<T> and its caller
    max_tasks,      \* Parallelise.max_tasks
    tasks,          \* Parallelise.tasks : Vec<JoinHandle<T>>, as task ids
    taskState,      \* per task id: "unspawned" | "running" | "finished"
    ppc,            \* where the caller is: "idle" | "push" | "wait" | "waited"
    pending,        \* the handle passed to the push call in progress (0: none)
    pushed,         \* history: ids of the handles push has added to tasks
    \* ---- gui/async_worker.rs : AsyncWorkerModel and the runs it spawns
    world,          \* what is outside the program: the index document behind
                    \* IndexCid, which requests and writes may fail, and the
                    \* storage directory the worker started with
    disk,           \* the storage directory: path -> file content
    download_assets_handle, \* AsyncWorkerModel.download_assets_handle (0: None)
    runs,           \* per spawned download_assets task: its local state
    outbox,         \* history: the messages passed to sender.output, in order,
                    \* since the latest download_assets task was spawned
    cmds,           \* number of DownloadAssets commands received so far
    \* ---- storage.rs : a caller of Storage's methods
    call,           \* history: the latest call of a Storage method on disk
    \* ---- gui/async_worker.rs : the progress bar of one download phase
    now,            \* the clock Instant::now() reads, in ms
    last_bar_update,        \* download_assets' local of this name, in ms
    downloaded_assets_count,\* download_assets' atomic of this name
    bar_pc,         \* "idle" | "renew": try_update_bar between its sends and
                    \* the renewal of last_bar_update
    sent_at,        \* history: per message of outbox, the time it was sent
    \* ---- gui/async_worker.rs : the check_connection tasks
    probes,         \* per spawned check_connection task: whether it has ended,
                    \* how its request ended, and how many messages it sent
    \* ---- functions without state (version_manifest.rs, net.rs, storage.rs,
    \*      asset_index.rs) and their caller
    input,          \* the function called last and its arguments
    output,         \* what that call returned
    \* ---- gui/async_worker.rs : download_assets over an index too large to
    \*      name its units
    download_tasks  \* the JoinSet and the loops around it: how many entries
                    \* are left, how many units are in the set and how many
                    \* of those have completed

poolVars == <<max_tasks, tasks, taskState, ppc, pending, pushed>>
syncVars == <<world, disk, download_assets_handle, runs, outbox, cmds>>
storeVars == <<call>>
barVars == <<now, last_bar_update, downloaded_assets_count, bar_pc, sent_at>>
probeVars == <<probes>>
pureVars == <<input, output>>
joinVars == <<download_tasks>>
vars == <<max_tasks, tasks, taskState, ppc, pending, pushed,
          world, disk, download_assets_handle, runs, outbox, cmds,
          call, now, last_bar_update, downloaded_assets_count, bar_pc, sent_at,
          probes, input, output, download_tasks>>

\* ------------------------------------------------------------------ bounds
\* largest max_tasks a pool is built with
MaxTasks == 2
\* number of tasks the pool's caller spawns and pushes
MaxPush == 4
\* number of DownloadAssets commands the worker receives
MaxCmds == 2
\* number of calls a caller makes on a Storage
MaxCalls == 2
\* longest list of rules a library is given
MaxRules == 2
\* entries of the largest index whose run is followed with the JoinSet counted
MaxEntries == 258
\* number of CheckConnection commands the worker is sent
MaxProbes == 2
\* most members of an index document that is parsed
MaxMembers == 2
\* longest hash passed to get_asset_path by a caller of its own
MaxHashLen == 3
\* how long a timed download phase is followed, in ms
MaxTime == 24
\* number of index entries of a timed download phase
BarLength == 2

\* ------------------------------------------------------- program constants
\* async_worker.rs:134  `if retries > 10`
MaxRetries == 10
\* async_worker.rs:127  `if download_tasks.len() >= 256`
JoinLimit == 256
\* async_worker.rs:104  `Duration::from_millis(10)`
Throttle == 10

\* ------------------------------------------------------------------ helpers
Range(s) == {s[i] : i \in 1..Len(s)}

RemoveAt(s, j) == SubSeq(s, 1, j - 1) \o SubSeq(s, j + 1, Len(s))

Min(S) == CHOOSE m \in S : \A n \in S : m <= n
Max(S) == CHOOSE m \in S : \A n \in S : m >= n

(***************************************************************************)
(*                     utils/parallel.rs : Parallelise                     *)
(***************************************************************************)
TaskIds == 1..MaxPush

\* JoinHandle::is_finished
IsFinished(t) == taskState[t] = "finished"

\* Parallelise::new(Some(n))
PoolNew(n) ==
    /\ max_tasks = n
    /\ tasks = <<>>

\* a scan that removes nothing
RemoveNothing(ts) == ts

\* a scan that drops the first handle whether or not its task has finished
RemoveFirstUnchecked(ts) == IF ts = <<>> THEN ts ELSE RemoveAt(ts, 1)

\* the scan of push and wait: remove the first finished handle, then break
RemoveFirstFinished(ts) ==
    LET fin == {j \in 1..Len(ts) : IsFinished(ts[j])}
    IN  IF fin = {} THEN ts ELSE RemoveAt(ts, Min(fin))

\* a test that lets a full set take one handle more
HasRoomWhenFull(ts) == Len(ts) <= max_tasks

\* lines 63 and 75: self.tasks.len() < self.max_tasks
HasRoom(ts) == Len(ts) < max_tasks

\* the caller evaluates push's argument: tokio::spawn(..) starts the task,
\* then push is entered with its handle
CallPush(t) ==
    /\ ppc \in {"idle", "waited"}
    /\ taskState[t] = "unspawned"
    /\ \A u \in TaskIds : u < t => taskState[u] # "unspawned"
    /\ taskState' = [taskState EXCEPT ![t] = "running"]
    /\ pending' = t
    /\ ppc' = "push"
    /\ UNCHANGED <<max_tasks, tasks, pushed>>
    /\ UNCHANGED <<syncVars, storeVars, barVars, probeVars, pureVars, joinVars>>

\* one turn of push's loop, up to its sleep or to the final tasks.push(task)
PushIter ==
    /\ ppc = "push"
    /\ LET scanned == IF HasRoom(tasks) THEN tasks
                      ELSE RemoveFirstFinished(tasks)
       IN  IF HasRoom(scanned)
           THEN /\ tasks' = Append(scanned, pending)
                /\ pushed' = pushed \cup {pending}
                /\ pending' = 0
                /\ ppc' = "idle"
           ELSE /\ tasks' = scanned
                /\ UNCHANGED <<pushed, pending, ppc>>
    /\ UNCHANGED <<max_tasks, taskState>>
    /\ UNCHANGED <<syncVars, storeVars, barVars, probeVars, pureVars, joinVars>>

\* the caller enters wait
CallWait ==
    /\ ppc \in {"idle", "waited"}
    /\ ppc' = "wait"
    /\ UNCHANGED <<max_tasks, tasks, taskState, pending, pushed>>
    /\ UNCHANGED <<syncVars, storeVars, barVars, probeVars, pureVars, joinVars>>

\* one turn of wait's loop, up to its sleep or to its return
WaitIter ==
    /\ ppc = "wait"
    /\ tasks' = RemoveFirstFinished(tasks)
    /\ ppc' = IF tasks' = <<>> THEN "waited" ELSE "wait"
    /\ UNCHANGED <<max_tasks, taskState, pending, pushed>>
    /\ UNCHANGED <<syncVars, storeVars, barVars, probeVars, pureVars, joinVars>>

\* a spawned task runs to its end on the runtime
TaskFinish(t) ==
    /\ taskState[t] = "running"
    /\ taskState' = [taskState EXCEPT ![t] = "finished"]
    /\ UNCHANGED <<max_tasks, tasks, ppc, pending, pushed>>
    /\ UNCHANGED <<syncVars, storeVars, barVars, probeVars, pureVars, joinVars>>


(***************************************************************************)
(*        the world outside the program: hashes, contents, gateway         *)
(***************************************************************************)
\* A hash is a sequence of hex characters (40 in the program, 3 here).
\* async_worker.rs:76, the hash of the asset index
IndexHash == <<"0", "b", "3">>
\* async_worker.rs:80, the locator of the asset index
IndexCid == "bafkrei"

H1 == <<"a", "1", "7">>
H2 == <<"c", "4", "e">>
\* a hash of fewer than two characters
HShort == <<"f">>
\* the digest of bytes that are none of the listed blobs
JunkHash == <<"d", "e", "a">>
\* the digest of a file that holds only a prefix of a blob
CutHash == <<"e", "e", "e">>

\* The bytes whose SHA-1 is h, and a strict prefix of them.
Blob(h) == [kind |-> "bytes", sha1 |-> h, cut |-> FALSE]
CutOf(c) == [kind |-> "bytes", sha1 |-> CutHash, cut |-> TRUE]

\* An asset index document: its objects, the order its keys are written in
\* and whether it is written with whitespace.
Doc(objs, ord, spaced) ==
    [kind |-> "json", objects |-> objs, order |-> ord, spaced |-> spaced]
\* A document with the index's hash that is no asset index.
DocBad == [kind |-> "text", sha1 |-> IndexHash, cut |-> FALSE]

Entry(h, p, n) == [hash |-> h, path |-> p, size |-> n]

\* the index of the end-to-end scenario: two entries, distinct hashes
Objects2 == [n \in {"a", "b"} |->
                IF n = "a" THEN Entry(H1, "P1", 10) ELSE Entry(H2, "P2", 20)]
\* an index with one entry whose hash has a single character
ObjectsShort == [n \in {"s"} |-> Entry(HShort, "P3", 5)]

\* an index in which two names map to entries with the same hash
ObjectsDup == [n \in {"a", "b"} |-> Entry(H1, "P1", 10)]

\* The documents the gateway may hold under IndexCid.
IndexDocs ==
    { Doc(Objects2, <<"a", "b">>, TRUE),
      Doc(ObjectsShort, <<"s">>, FALSE),
      DocBad }

\* What may fail: the requests for these locators, and with "disk" the local
\* writes. Everything else succeeds.
FlakySets == { {}, {IndexCid, "disk"}, {"P1"}, {IndexCid, "disk", "P1", "P2"} }

\* sha1::Sha1 + hex::encode (storage.rs:150-160, net.rs:225-231): the document
\* held under IndexCid is the one whose digest is IndexHash
Sha1(c) ==
    IF c = world.doc THEN IndexHash
    ELSE IF c.kind = "json" THEN JunkHash
    ELSE c.sha1

\* What the gateway holds under a locator: the index document, or the blob of
\* the index entry that names the locator.
Served(loc) ==
    IF loc = IndexCid THEN world.doc
    ELSE LET objs == world.doc.objects
             n == CHOOSE n \in DOMAIN objs : objs[n].path = loc
         IN  Blob(objs[n].hash)

\* How one request to the gateway and the write of its file may end.
\*  "ok"    the gateway's bytes are streamed to the end
\*  "nodir" create_dir_all fails: no request is made, no file is created
\*  "fail"  the request is made and fails, or the file cannot be created
\*  "cut"   an error after the file is created, while streaming
\*  "wrong" other bytes are streamed to the end
Outcomes(loc) ==
    IF loc \in world.flaky THEN {"ok", "fail", "cut", "wrong"} ELSE {"ok"}
\* How one local write (tokio::fs::write) may end.
WriteOutcomes == IF "disk" \in world.flaky THEN {"ok", "fail"} ELSE {"ok"}
\* Every way a call of Storage::download_asset may end ("nodir" leaves the
\* same files as "fail").
StoreOutcomes == {"ok", "nodir", "fail", "cut", "wrong"}

(***************************************************************************)
(*                          storage.rs : Storage                           *)
(***************************************************************************)
\* Paths are relative to storage_dir.
\* a layout without the two-character directory level
GetAssetPathFlat(h) == <<"objects", h>>

\* Storage::get_asset_path; &sha1_hash[0..2] panics on a shorter hash
GetAssetPath(h) == <<"objects", SubSeq(h, 1, 2), h>>
AssetPathPanics(h) == Len(h) < 2

\* Storage::get_index_path
GetIndexPath(h) == <<"indexes", h \o <<".json">>>>

WriteFile(d, p, c) == [q \in DOMAIN d \cup {p} |-> IF q = p THEN c ELSE d[q]]

\* a check that only looks whether the file exists
CheckAssetExistsOnly(d, h) == GetAssetPath(h) \in DOMAIN d

\* Storage::check_asset
CheckAsset(d, h) ==
    LET dest_path == GetAssetPath(h)
    IN  IF dest_path \notin DOMAIN d THEN FALSE
        ELSE Sha1(d[dest_path]) = h

\* What a call of the store returns and did: the files after it, the Result's
\* variant, the fields of HashMismatch(expected, actual), and how many
\* requests were sent and how many local digests were computed.
Returned(d, res, mismatch, reqs, checks) ==
    [disk |-> d, res |-> res, mismatch |-> mismatch, reqs |-> reqs,
     checks |-> checks]

\* a download that does not compare the digest with the hash
DownloadAssetUnverified(d, h, loc, o) ==
    LET dest_path == GetAssetPath(h)
    IN  CASE o = "nodir" -> Returned(d, "IOError", << >>, 0, 0)
          [] o = "fail"  -> Returned(d, "NetworkError", << >>, 1, 0)
          [] o = "cut"   -> Returned(WriteFile(d, dest_path, CutOf(Served(loc))),
                                     "NetworkError", << >>, 1, 0)
          [] o = "wrong" -> Returned(WriteFile(d, dest_path, Blob(JunkHash)),
                                     "Ok", << >>, 1, 0)
          [] o = "ok"    -> Returned(WriteFile(d, dest_path, Served(loc)),
                                     "Ok", << >>, 1, 0)

\* Storage::download_asset with NetClient::download_and_hash: the file is
\* created (truncated) once the response arrives, chunks are written and hashed
DownloadAsset(d, h, loc, o) ==
    LET dest_path == GetAssetPath(h)
    IN  CASE o = "nodir" -> Returned(d, "IOError", << >>, 0, 0)
          [] o = "fail"  -> Returned(d, "NetworkError", << >>, 1, 0)
          [] o = "cut"   -> Returned(WriteFile(d, dest_path, CutOf(Served(loc))),
                                     "NetworkError", << >>, 1, 0)
          [] o = "wrong" -> Returned(WriteFile(d, dest_path, Blob(JunkHash)),
                                     "HashMismatch", <<h, JunkHash>>, 1, 0)
          [] o = "ok"    ->
                IF Sha1(Served(loc)) = h
                THEN Returned(WriteFile(d, dest_path, Served(loc)),
                              "Ok", << >>, 1, 0)
                ELSE Returned(WriteFile(d, dest_path, Served(loc)),
                              "HashMismatch", <<h, Sha1(Served(loc))>>, 1, 0)

\* a variant that downloads without looking at the store
DownloadAssetAlways(d, h, loc, o) == DownloadAsset(d, h, loc, o)

\* a variant that verifies the file it finds
DownloadAssetIfNotExistsVerifying(d, h, loc, o) ==
    IF GetAssetPath(h) \notin DOMAIN d THEN DownloadAsset(d, h, loc, o)
    ELSE IF ~CheckAsset(d, h)
         THEN [DownloadAsset(d, h, loc, o) EXCEPT !.checks = 1]
    ELSE Returned(d, "Ok", << >>, 0, 1)

\* Storage::download_asset_if_not_exists
DownloadAssetIfNotExists(d, h, loc, o) ==
    IF GetAssetPath(h) \notin DOMAIN d THEN DownloadAsset(d, h, loc, o)
    ELSE Returned(d, "Ok", << >>, 0, 0)

\* a variant that trusts any file it finds
DownloadAssetIfInvalidTrusting(d, h, loc, o) ==
    IF GetAssetPath(h) \notin DOMAIN d THEN DownloadAsset(d, h, loc, o)
    ELSE Returned(d, "Ok", << >>, 0, 0)

\* Storage::download_asset_if_invalid
DownloadAssetIfInvalid(d, h, loc, o) ==
    IF AssetPathPanics(h) THEN Returned(d, "Panic", << >>, 0, 0)
    ELSE IF GetAssetPath(h) \notin DOMAIN d THEN DownloadAsset(d, h, loc, o)
    ELSE IF ~CheckAsset(d, h)
         THEN [DownloadAsset(d, h, loc, o) EXCEPT !.checks = 1]
    ELSE Returned(d, "Ok", << >>, 0, 1)

(***************************************************************************)
(*                 structures/asset_index.rs : AssetIndex                  *)
(***************************************************************************)
\* AssetIndex::parse: read_to_string, then serde_json::from_str keeps the
\* objects mapping and nothing of the document's layout
Parse(d, p) ==
    IF p \notin DOMAIN d THEN [ok |-> FALSE, objects |-> << >>]
    ELSE IF d[p].kind # "json" THEN [ok |-> FALSE, objects |-> << >>]
    ELSE [ok |-> TRUE, objects |-> d[p].objects]

\* the orders a HashMap may be iterated in
Orders(objs) ==
    {s \in [1..Cardinality(DOMAIN objs) -> DOMAIN objs] : Range(s) = DOMAIN objs}

\* serde_json::to_string(&self): compact, keys in the map's iteration order
SerdeToString(objs, ord) == Doc(objs, ord, FALSE)

\* a save that reports success without writing the file
SaveNothing(d, objs, h, ord, o) == [disk |-> d, res |-> "Ok"]

\* AssetIndex::save
Save(d, objs, h, ord, o) ==
    IF o = "ok" THEN [disk |-> WriteFile(d, GetIndexPath(h), SerdeToString(objs, ord)),
                      res |-> "Ok"]
    ELSE [disk |-> d, res |-> "IO"]

(***************************************************************************)
(*                 gui/async_worker.rs : AsyncWorkerModel                  *)
(***************************************************************************)
RunIds == 1..Len(runs)

\* the local state of a download_assets task that has just been spawned
NewRun ==
    [pc |-> "fetch_index",  \* "fetch_index" | "save_index" | "spawn" | "join"
                            \* | "ok" | "err" | "panic"
     objects |-> << >>,     \* index.objects
     todo |-> << >>,        \* the names index.get_assets() has yet to yield
     units |-> << >>,       \* per spawned unit: st, retries, attempts
     joinset |-> {},        \* download_tasks: the units not yet joined
     count |-> 0]           \* downloaded_assets_count

\* a download_assets task that has ended: its result stays in the JoinHandle,
\* its locals are dropped, and dropping the JoinSet aborts the units still in it
Ended(result) == [NewRun EXCEPT !.pc = result]

\* a unit that tokio has just been given
NewUnit == [st |-> "running", retries |-> 0, attempts |-> 0]

\* JoinHandle::is_finished of a download_assets task
RunFinished(r) == runs[r].pc \in {"ok", "err", "panic"}

\* AppMsg values, tagged with the run that sends them
MsgText(r, label, done, total) ==
    [type |-> "SetProgressBarText", run |-> r, text |-> <<label, done, total>>]
MsgFraction(r, num, den) ==
    [type |-> "SetProgressBarFraction", run |-> r, num |-> num, den |-> den]
MsgShow(r) == [type |-> "ShowProgressBar", run |-> r]
MsgHide(r) == [type |-> "HideProgressBar", run |-> r]

\* try_update_bar: the messages it sends, given whether more than 10 ms have
\* passed since last_bar_update
TryUpdateBar(r, count, length, elapsed) ==
    IF elapsed
    THEN << MsgText(r, "Downloaded asset", count, length),
            MsgFraction(r, count, length) >>
    ELSE << >>

\* a test that lets every call of try_update_bar through
ElapsedAlways(t, last) == TRUE

\* line 104: last_bar_update.elapsed() > Duration::from_millis(10), with the
\* clock reading t
Elapsed(t, last) == t - last > Throttle

\* a handle that stays busy once a task was stored in it
HandleStuck == download_assets_handle # 0

\* a handle that is never seen as busy
HandleNeverBusy == FALSE

\* update, DownloadAssets: the stored handle is Some and its task unfinished
HandleBusy ==
    /\ download_assets_handle # 0
    /\ ~RunFinished(download_assets_handle)

\* an update that clears the stored handle when it rejects the command
UpdateDownloadAssetsForgetting ==
    /\ cmds < MaxCmds
    /\ cmds' = cmds + 1
    /\ IF HandleBusy
       THEN /\ download_assets_handle' = 0
            /\ UNCHANGED <<runs, outbox>>
       ELSE /\ runs' = Append(runs, NewRun)
            /\ download_assets_handle' = Len(runs) + 1
            /\ outbox' = << >>
    /\ UNCHANGED <<world, disk>>
    /\ UNCHANGED <<poolVars, storeVars, barVars, probeVars, pureVars, joinVars>>

\* AsyncWorkerModel::update(AsyncWorkerMsg::DownloadAssets)
UpdateDownloadAssets ==
    /\ cmds < MaxCmds
    /\ cmds' = cmds + 1
    /\ IF HandleBusy
       THEN UNCHANGED <<download_assets_handle, runs, outbox>>
       ELSE /\ runs' = Append(runs, NewRun)
            /\ download_assets_handle' = Len(runs) + 1
            /\ outbox' = << >>
    /\ UNCHANGED <<world, disk>>
    /\ UNCHANGED <<poolVars, storeVars, barVars, probeVars, pureVars, joinVars>>

\* download_assets, lines 76-82: AssetIndex::download_if_invalid; the parsed
\* HashMap has one iteration order for as long as it lives
RunFetchIndex(r) ==
    /\ r \in RunIds
    /\ runs[r].pc = "fetch_index"
    /\ \E o \in Outcomes(IndexCid) :
         LET got == DownloadAssetIfInvalid(disk, IndexHash, IndexCid, o)
             parsed == Parse(got.disk, GetAssetPath(IndexHash))
         IN  /\ disk' = got.disk
             /\ IF got.res = "Ok" /\ parsed.ok
                THEN \E ord \in Orders(parsed.objects) :
                       runs' = [runs EXCEPT ![r] =
                          [@ EXCEPT !.pc = "save_index",
                                    !.objects = parsed.objects,
                                    !.todo = ord]]
                ELSE runs' = [runs EXCEPT ![r] = Ended("err")]
    /\ UNCHANGED <<world, download_assets_handle, outbox, cmds>>
    /\ UNCHANGED <<poolVars, storeVars, barVars, probeVars, pureVars, joinVars>>

\* download_assets, lines 84-101: index.save, then the first two messages
RunSaveIndex(r) ==
    /\ r \in RunIds
    /\ runs[r].pc = "save_index"
    /\ \E o \in WriteOutcomes :
         LET objs == runs[r].objects
             saved == Save(disk, objs, IndexHash, runs[r].todo, o)
             length == Cardinality(DOMAIN objs)
         IN  /\ disk' = saved.disk
             /\ IF saved.res = "Ok"
                THEN /\ runs' = [runs EXCEPT ![r] =
                          [@ EXCEPT !.pc = IF length = 0 THEN "join" ELSE "spawn"]]
                     /\ outbox' = outbox \o
                          << MsgText(r, "Downloading assets", 0, length),
                             MsgShow(r) >>
                ELSE /\ runs' = [runs EXCEPT ![r] = Ended("err")]
                     /\ UNCHANGED outbox
    /\ UNCHANGED <<world, download_assets_handle, cmds>>
    /\ UNCHANGED <<poolVars, storeVars, barVars, probeVars, pureVars, joinVars>>

\* a unit the JoinSet can hand out: its task has ended
Completed(r, n) == runs[r].units[n].st \in {"finished", "panicked"}

\* a test that lets the set grow to one unit more
FullLate(len) == len > JoinLimit

\* line 127: download_tasks.len() >= 256
Full(len) == len >= JoinLimit

\* download_assets, lines 122-145: one turn of the for loop
RunSpawnNext(r) ==
    /\ r \in RunIds
    /\ runs[r].pc = "spawn"
    /\ \E elapsed \in BOOLEAN :
         LET run == runs[r]
             n == Head(run.todo)
             full == Full(Cardinality(run.joinset))
             length == Cardinality(DOMAIN run.objects)
         IN  \E j \in IF full THEN {u \in run.joinset : Completed(r, u)}
                      ELSE {n} :
               IF full /\ run.units[j].st = "panicked"
               THEN /\ runs' = [runs EXCEPT ![r] = Ended("panic")]
                    /\ UNCHANGED outbox
               ELSE /\ runs' = [runs EXCEPT ![r] =
                         [@ EXCEPT !.pc = IF Len(run.todo) = 1 THEN "join"
                                          ELSE "spawn",
                                   !.todo = Tail(run.todo),
                                   !.joinset = (IF full THEN run.joinset \ {j}
                                                ELSE run.joinset) \cup {n},
                                   !.units = [u \in DOMAIN run.units \cup {n} |->
                                                IF u = n THEN NewUnit
                                                ELSE run.units[u]]]]
                    /\ outbox' = outbox \o
                         TryUpdateBar(r, run.count, length, elapsed)
    /\ UNCHANGED <<world, disk, download_assets_handle, cmds>>
    /\ UNCHANGED <<poolVars, storeVars, barVars, probeVars, pureVars, joinVars>>

\* a unit that allows itself one retry more
GiveUpLate(retries) == retries > MaxRetries + 1

\* after this many failed attempts the unit gives up: `retries > 10`
GiveUp(retries) == retries > MaxRetries

\* a unit that ends in a panic when its retries are exhausted
UnitExhaustedPanics(unit, retries) ==
    [unit EXCEPT !.st = "panicked", !.retries = retries,
                 !.attempts = unit.attempts + 1]

\* lines 134-137: the unit logs the error and breaks out of its loop
UnitExhausted(unit, retries) ==
    [unit EXCEPT !.st = "finished", !.retries = retries,
                 !.attempts = unit.attempts + 1]

\* an increment that is lost: the counter keeps the value it had
FetchAddLost(count) == count

\* line 141: downloaded_assets_count.fetch_add(1, Ordering::SeqCst), one
\* atomic read-modify-write
FetchAdd(count) == count + 1

\* a panic that is caught inside the unit, which then ends like any other
UnitPanicSwallowed(unit) == [unit EXCEPT !.st = "finished"]

\* storage.rs line 64: &hash[..2] panics inside the spawned unit; the task
\* unwinds before line 132 counts a retry and before line 141
UnitPanics(unit) == [unit EXCEPT !.st = "panicked"]

\* the spawned unit, lines 130-142: one turn of its while loop
UnitAttempt(r, n) ==
    /\ r \in RunIds
    /\ n \in DOMAIN runs[r].units
    /\ runs[r].units[n].st = "running"
    /\ \E o \in Outcomes(runs[r].objects[n].path) :
         LET run == runs[r]
             unit == run.units[n]
             asset == run.objects[n]
             got == DownloadAssetIfInvalid(disk, asset.hash, asset.path, o)
             retries == unit.retries + 1
             after ==
                CASE got.res = "Panic" -> UnitPanics(unit)
                  [] got.res = "Ok" ->
                       [unit EXCEPT !.st = "finished",
                                    !.attempts = unit.attempts + 1]
                  [] OTHER ->
                       IF GiveUp(retries) THEN UnitExhausted(unit, retries)
                       ELSE [unit EXCEPT !.retries = retries,
                                         !.attempts = unit.attempts + 1]
         IN  /\ disk' = got.disk
             \* line 141: fetch_add once the loop is left
             /\ runs' = [runs EXCEPT ![r] =
                  [@ EXCEPT !.units[n] = after,
                            !.count = IF after.st = "finished"
                                      THEN FetchAdd(run.count)
                                      ELSE run.count]]
    /\ UNCHANGED <<world, download_assets_handle, outbox, cmds>>
    /\ UNCHANGED <<poolVars, storeVars, barVars, probeVars, pureVars, joinVars>>

\* download_assets, lines 148-151: join_next yields a unit that has ended
RunJoinNext(r) ==
    /\ r \in RunIds
    /\ runs[r].pc = "join"
    /\ \E j \in runs[r].joinset : \E elapsed \in BOOLEAN :
         LET run == runs[r]
             length == Cardinality(DOMAIN run.objects)
         IN  /\ Completed(r, j)
             /\ IF run.units[j].st = "panicked"
                THEN /\ runs' = [runs EXCEPT ![r] = Ended("panic")]
                     /\ UNCHANGED outbox
                ELSE /\ runs' = [runs EXCEPT ![r] =
                          [@ EXCEPT !.joinset = run.joinset \ {j}]]
                     /\ outbox' = outbox \o
                          TryUpdateBar(r, run.count, length, elapsed)
    /\ UNCHANGED <<world, disk, download_assets_handle, cmds>>
    /\ UNCHANGED <<poolVars, storeVars, barVars, probeVars, pureVars, joinVars>>

\* a task that returns Ok without sending HideProgressBar
RunFinishSilent(r) ==
    /\ r \in RunIds
    /\ runs[r].pc = "join"
    /\ runs[r].joinset = {}
    /\ runs' = [runs EXCEPT ![r] = Ended("ok")]
    /\ UNCHANGED <<world, disk, download_assets_handle, cmds, outbox>>
    /\ UNCHANGED <<poolVars, storeVars, barVars, probeVars, pureVars, joinVars>>

\* download_assets, lines 148-161: join_next yields None, HideProgressBar, Ok
RunFinish(r) ==
    /\ r \in RunIds
    /\ runs[r].pc = "join"
    /\ runs[r].joinset = {}
    /\ runs' = [runs EXCEPT ![r] = Ended("ok")]
    /\ outbox' = Append(outbox, MsgHide(r))
    /\ UNCHANGED <<world, disk, download_assets_handle, cmds>>
    /\ UNCHANGED <<poolVars, storeVars, barVars, probeVars, pureVars, joinVars>>

(***************************************************************************)
(*          structures/version_manifest.rs : Rule and Library              *)
(***************************************************************************)
\* An Option is a sequence of at most one element.
None == << >>
Some(x) == <<x>>

\* get_os_name: the name of the target the program is built for
OsNames == {"windows", "osx", "linux"}

\* an action_to_bool that has an arm for every string
ActionNeverPanics(rule) == FALSE

\* Rule::action_to_bool; any other action panics
ActionPanics(rule) == rule.action \notin {"allow", "disallow"}
ActionToBool(rule) == rule.action = "allow"

\* an invert that ignores the action
InvertNever(rule, b) == b

\* Rule::invert
Invert(rule, b) == IF ActionToBool(rule) THEN b ELSE ~b

\* Rule::is_satisfied on a program built for os
IsSatisfiedPanics(rule) == rule.os # None /\ ActionPanics(rule)
IsSatisfied(rule, os) ==
    IF rule.os # None THEN Invert(rule, rule.os[1].name = os)
    ELSE TRUE

\* a test that looks at the first rule only
FirstSatisfied(rules, os) ==
    IF rules = << >> THEN TRUE ELSE IsSatisfied(Head(rules), os)

\* rules.iter().all(|rule| rule.is_satisfied()): stops at the first rule that
\* is not satisfied
RECURSIVE AllSatisfied(_, _)
AllSatisfied(rules, os) ==
    IF rules = << >> THEN TRUE
    ELSE IF ~IsSatisfied(Head(rules), os) THEN FALSE
    ELSE AllSatisfied(Tail(rules), os)

\* the rules `all` evaluates: up to the first one that is not satisfied
Evaluated(rules, os) ==
    LET unsat == {i \in 1..Len(rules) : ~IsSatisfiedPanics(rules[i])
                                          /\ ~IsSatisfied(rules[i], os)}
        bad == {i \in 1..Len(rules) : IsSatisfiedPanics(rules[i])}
        stop == IF unsat = {} THEN Len(rules) ELSE Min(unsat)
    IN  1..(IF bad = {} THEN stop
            ELSE IF Min(bad) < stop THEN Min(bad) ELSE stop)

\* Library::is_rules_satisfied
IsRulesSatisfiedPanics(lib, os) ==
    /\ lib.rules # None
    /\ \E i \in Evaluated(lib.rules[1], os) : IsSatisfiedPanics(lib.rules[1][i])
IsRulesSatisfied(lib, os) ==
    IF lib.rules # None THEN AllSatisfied(lib.rules[1], os)
    ELSE TRUE

\* a selection that drops the classifier of a library whose rules fail
GetArtifactsRuled(lib, os) ==
    IF lib.downloads.artifact # None /\ IsRulesSatisfied(lib, os)
    THEN <<lib.downloads.artifact[1]>>
         \o (IF /\ lib.downloads.classifiers # None
                /\ lib.natives # None
                /\ os \in DOMAIN lib.natives[1]
                /\ lib.natives[1][os] \in DOMAIN lib.downloads.classifiers[1]
             THEN <<lib.downloads.classifiers[1][lib.natives[1][os]]>>
             ELSE << >>)
    ELSE << >>

\* Library::get_artifacts
GetArtifactsPanics(lib, os) ==
    lib.downloads.artifact # None /\ IsRulesSatisfiedPanics(lib, os)
GetArtifacts(lib, os) ==
    (IF lib.downloads.artifact # None /\ IsRulesSatisfied(lib, os)
     THEN <<lib.downloads.artifact[1]>> ELSE << >>)
    \o (IF /\ lib.downloads.classifiers # None
            /\ lib.natives # None
            /\ os \in DOMAIN lib.natives[1]
            /\ lib.natives[1][os] \in DOMAIN lib.downloads.classifiers[1]
         THEN <<lib.downloads.classifiers[1][lib.natives[1][os]]>>
         ELSE << >>)

(***************************************************************************)
(*                             specifications                              *)
(***************************************************************************)
\* the storage directory before the worker starts: empty, or holding
\* leftovers of earlier failed downloads
InitDisks(doc) ==
    { << >>,
      WriteFile(WriteFile(<< >>, GetAssetPath(IndexHash), CutOf(doc)),
                GetAssetPath(H1), Blob(JunkHash)) }

\* no call of a Storage method has been made by a caller of its own
StoreIdle == call = [seq |-> 0, prev |-> << >>]

\* no check_connection task has been spawned
ProbeIdle == probes = << >>

\* no run over a large index is followed
JoinIdle == download_tasks = [pc |-> "idle"]

\* no function has been called by a caller of its own
PureIdle ==
    /\ input = [fn |-> "none"]
    /\ output = << >>

\* no download phase is being timed
BarIdle ==
    /\ now = 0
    /\ last_bar_update = 0
    /\ downloaded_assets_count = 0
    /\ bar_pc = "idle"
    /\ sent_at = << >>

PoolIdle ==
    /\ max_tasks = 0
    /\ tasks = << >>
    /\ taskState = [t \in TaskIds |-> "unspawned"]
    /\ ppc = "idle"
    /\ pending = 0
    /\ pushed = {}

\* AsyncWorkerModel::init
WorkerInit ==
    /\ download_assets_handle = 0
    /\ runs = << >>
    /\ outbox = << >>
    /\ cmds = 0

Init ==
    /\ PoolIdle
    /\ world \in {[doc |-> d, flaky |-> f, store0 |-> st] :
                    <<d, f, st>> \in {x \in IndexDocs \X FlakySets \X
                                        UNION {InitDisks(d) : d \in IndexDocs} :
                                      x[3] \in InitDisks(x[1])}}
    /\ disk = world.store0
    /\ WorkerInit
    /\ StoreIdle
    /\ BarIdle
    /\ ProbeIdle
    /\ PureIdle
    /\ JoinIdle

\* the names an index of IndexDocs may list
AllNames == {"a", "b", "s"}

Next ==
    \/ UpdateDownloadAssets
    \/ \E r \in 1..MaxCmds : RunFetchIndex(r)
    \/ \E r \in 1..MaxCmds : RunSaveIndex(r)
    \/ \E r \in 1..MaxCmds : RunSpawnNext(r)
    \/ \E r \in 1..MaxCmds : \E n \in AllNames : UnitAttempt(r, n)
    \/ \E r \in 1..MaxCmds : RunJoinNext(r)
    \/ \E r \in 1..MaxCmds : RunFinish(r)

Spec == Init /\ [][Next]_vars

\* a step of a download_assets task or of one of its units
TaskStep ==
    \/ \E r \in 1..MaxCmds : RunFetchIndex(r)
    \/ \E r \in 1..MaxCmds : RunSaveIndex(r)
    \/ \E r \in 1..MaxCmds : RunSpawnNext(r)
    \/ \E r \in 1..MaxCmds : \E n \in AllNames : UnitAttempt(r, n)
    \/ \E r \in 1..MaxCmds : RunJoinNext(r)
    \/ \E r \in 1..MaxCmds : RunFinish(r)

\* The tokio runtime does not stop while a task it holds can take a step.
\* Nothing obliges the user to send a command.
Fairness == WF_vars(TaskStep)

\* Init without the world in which every request and write may fail
FairInit ==
    /\ Init
    /\ world.flaky # {IndexCid, "disk", "P1", "P2"}

FairSpec == FairInit /\ [][Next]_vars /\ Fairness

InitPool ==
    /\ \E n \in 0..MaxTasks : PoolNew(n)
    /\ taskState = [t \in TaskIds |-> "unspawned"]
    /\ ppc = "idle"
    /\ pending = 0
    /\ pushed = {}
    /\ world = [doc |-> DocBad, flaky |-> {}, store0 |-> << >>]
    /\ disk = << >>
    /\ WorkerInit
    /\ StoreIdle
    /\ BarIdle
    /\ ProbeIdle
    /\ PureIdle
    /\ JoinIdle

NextPool ==
    \/ \E t \in TaskIds : CallPush(t)
    \/ PushIter
    \/ CallWait
    \/ WaitIter
    \/ \E t \in TaskIds : TaskFinish(t)

SpecPool == InitPool /\ [][NextPool]_vars

\* push's loop wakes from its sleep and takes its next turn, and every
\* spawned task runs to its end
FairnessPool ==
    /\ WF_vars(PushIter)
    /\ \A t \in TaskIds : WF_vars(TaskFinish(t))

FairSpecPool == InitPool /\ [][NextPool]_vars /\ FairnessPool

\* ---- the worker with an index that lists one blob under two names
InitDup ==
    /\ PoolIdle
    /\ WorkerInit
    /\ StoreIdle
    /\ BarIdle
    /\ ProbeIdle
    /\ PureIdle
    /\ JoinIdle
    /\ world \in {[doc |-> Doc(ObjectsDup, <<"a", "b">>, FALSE), flaky |-> f,
                    store0 |-> << >>] : f \in {{}, {"P1"}}}
    /\ disk = world.store0

SpecDup == InitDup /\ [][Next]_vars

\* ---- the download phase of one run against a clock
InitBar ==
    /\ PoolIdle
    /\ WorkerInit
    /\ StoreIdle
    /\ BarIdle
    /\ ProbeIdle
    /\ PureIdle
    /\ JoinIdle
    /\ world = [doc |-> Doc(Objects2, <<"a", "b">>, TRUE), flaky |-> {},
                store0 |-> << >>]
    /\ disk = world.store0

\* a millisecond passes
BarTick ==
    /\ now < MaxTime
    /\ now' = now + 1
    /\ UNCHANGED <<last_bar_update, downloaded_assets_count, bar_pc, sent_at>>
    /\ UNCHANGED <<poolVars, syncVars, storeVars, probeVars, pureVars, joinVars>>

\* a unit ends: line 141
BarUnitDone ==
    /\ downloaded_assets_count < BarLength
    /\ downloaded_assets_count' = FetchAdd(downloaded_assets_count)
    /\ UNCHANGED <<now, last_bar_update, bar_pc, sent_at>>
    /\ UNCHANGED <<poolVars, syncVars, storeVars, probeVars, pureVars, joinVars>>

\* try_update_bar is called, lines 103-115: the test and the two sends
BarTryUpdate ==
    /\ bar_pc = "idle"
    /\ LET msgs == TryUpdateBar(1, downloaded_assets_count, BarLength,
                                Elapsed(now, last_bar_update))
       IN  /\ outbox' = outbox \o msgs
           /\ sent_at' = sent_at \o [i \in 1..Len(msgs) |-> now]
           /\ bar_pc' = IF msgs = << >> THEN "idle" ELSE "renew"
    /\ UNCHANGED <<now, last_bar_update, downloaded_assets_count>>
    /\ UNCHANGED <<world, disk, download_assets_handle, runs, cmds>>
    /\ UNCHANGED <<poolVars, storeVars, probeVars, pureVars, joinVars>>

\* try_update_bar, line 117: last_bar_update = Instant::now()
BarRenew ==
    /\ bar_pc = "renew"
    /\ last_bar_update' = now
    /\ bar_pc' = "idle"
    /\ UNCHANGED <<now, downloaded_assets_count, sent_at>>
    /\ UNCHANGED <<poolVars, syncVars, storeVars, probeVars, pureVars, joinVars>>

NextBar ==
    \/ BarTick
    \/ BarUnitDone
    \/ BarTryUpdate
    \/ BarRenew

SpecBar == InitBar /\ [][NextBar]_vars

\* ---- a caller of Storage's methods on a store of two assets
StoreHashes == {H1, H2}
StoreLocs == {"P1", "P2"}

\* what a storage directory may hold at an asset's path before a call: nothing,
\* the asset, other bytes, or a part of the asset
NoFile == [kind |-> "absent"]
StoreFiles(h) == {NoFile, Blob(h), Blob(JunkHash), CutOf(Blob(h))}
StoreDisks ==
    { [p \in {GetAssetPath(h) : h \in {g \in StoreHashes : f[g] # NoFile}} |->
          LET h == CHOOSE g \in StoreHashes : GetAssetPath(g) = p IN f[h]] :
      f \in {g \in [StoreHashes -> UNION {StoreFiles(h) : h \in StoreHashes}] :
                \A h \in StoreHashes : g[h] \in StoreFiles(h)} }

InitStore ==
    /\ PoolIdle
    /\ WorkerInit
    /\ BarIdle
    /\ StoreIdle
    /\ ProbeIdle
    /\ PureIdle
    /\ JoinIdle
    /\ world \in {[doc |-> Doc(Objects2, <<"a", "b">>, TRUE), flaky |-> {},
                    store0 |-> d] : d \in StoreDisks}
    /\ disk = world.store0

\* a call of a Storage method returns: what it did is recorded, with how a
\* request made during the call would end, and with the call before it
StoreCall(op, h, loc, o, got, ret) ==
    /\ call.seq < MaxCalls
    /\ disk' = got.disk
    /\ call' = [seq |-> call.seq + 1, op |-> op, hash |-> h, loc |-> loc,
                how |-> o, got |-> got, ret |-> ret,
                prev |-> [call EXCEPT !.prev = << >>]]
    /\ UNCHANGED <<world, download_assets_handle, runs, outbox, cmds>>
    /\ UNCHANGED <<poolVars, barVars, probeVars, pureVars, joinVars>>

\* Ok(dest_path), or nothing with an Err
PathIfOk(got, h) == IF got.res = "Ok" THEN GetAssetPath(h) ELSE << >>

CallDownloadAsset ==
    \E h \in StoreHashes : \E loc \in StoreLocs : \E o \in StoreOutcomes :
        LET got == DownloadAsset(disk, h, loc, o)
        IN  StoreCall("download_asset", h, loc, o, got, PathIfOk(got, h))

CallDownloadAssetIfNotExists ==
    \E h \in StoreHashes : \E loc \in StoreLocs : \E o \in StoreOutcomes :
        LET got == DownloadAssetIfNotExists(disk, h, loc, o)
        IN  StoreCall("download_asset_if_not_exists", h, loc, o, got,
                      PathIfOk(got, h))

CallDownloadAssetIfInvalid ==
    \E h \in StoreHashes : \E loc \in StoreLocs : \E o \in StoreOutcomes :
        LET got == DownloadAssetIfInvalid(disk, h, loc, o)
        IN  StoreCall("download_asset_if_invalid", h, loc, o, got,
                      PathIfOk(got, h))

CallCheckAsset ==
    \E h \in StoreHashes :
        StoreCall("check_asset", h, "", "", Returned(disk, "Ok", << >>, 0, 1),
                  CheckAsset(disk, h))

NextStore ==
    \/ CallDownloadAsset
    \/ CallDownloadAssetIfNotExists
    \/ CallDownloadAssetIfInvalid
    \/ CallCheckAsset

SpecStore == InitStore /\ [][NextStore]_vars

\* ---- a caller of the functions without state
\* the os names and actions a manifest may carry
RuleOsNames == OsNames \cup {"freebsd"}
RuleActions == {"allow", "disallow", "deny"}
Rules == {[action |-> a, os |-> o] :
            a \in RuleActions,
            o \in {None} \cup {Some([name |-> n]) : n \in RuleOsNames}}
RuleLists == UNION {[1..k -> Rules] : k \in 0..MaxRules}

ClassifierMaps ==
    { None, Some(<< >>),
      Some([k \in {"natives-linux"} |-> "natives-1.jar"]),
      Some([k \in {"natives-linux", "natives-windows"} |->
              IF k = "natives-linux" THEN "natives-1.jar" ELSE "natives-2.jar"]) }
NativesMaps ==
    { None, Some(<< >>),
      Some([o \in {"linux"} |-> "natives-linux"]),
      Some([o \in {"linux"} |-> "natives-bsd"]),
      Some([o \in {"windows", "osx"} |->
              IF o = "windows" THEN "natives-windows" ELSE "natives-osx"]) }
Libraries ==
    {[downloads |-> [artifact |-> a, classifiers |-> c],
      rules |-> r, natives |-> n] :
        a \in {None, Some("plain.jar")}, c \in ClassifierMaps,
        r \in {None} \cup {Some(l) : l \in RuleLists}, n \in NativesMaps}

\* a call returns a value, or the thread panics
Ok(v) == [res |-> "Ok", val |-> v]
Panic == [res |-> "Panic"]

\* no function has been called yet
NotApplied == input.fn = "none"

\* a function is called with these arguments and returns; a behaviour holds
\* one call (NotApplied)
Apply(fn, args, result) ==
    /\ input' = [fn |-> fn, args |-> args]
    /\ output' = result
    /\ UNCHANGED <<poolVars, syncVars, storeVars, barVars, probeVars, joinVars>>

ApplyIsSatisfied ==
    /\ NotApplied
    /\ \E rule \in Rules : \E os \in OsNames :
           Apply("Rule::is_satisfied", [rule |-> rule, os |-> os],
                 IF IsSatisfiedPanics(rule) THEN Panic
                 ELSE Ok(IsSatisfied(rule, os)))

ApplyIsRulesSatisfied ==
    /\ NotApplied
    /\ \E lib \in Libraries : \E os \in OsNames :
           Apply("Library::is_rules_satisfied", [lib |-> lib, os |-> os],
                 IF IsRulesSatisfiedPanics(lib, os) THEN Panic
                 ELSE Ok(IsRulesSatisfied(lib, os)))

ApplyGetArtifacts ==
    /\ NotApplied
    /\ \E lib \in Libraries : \E os \in OsNames :
           Apply("Library::get_artifacts", [lib |-> lib, os |-> os],
                 IF GetArtifactsPanics(lib, os) THEN Panic
                 ELSE Ok(GetArtifacts(lib, os)))

\* ---- storage.rs : get_asset_path under a storage directory
\* PathBuf::join with a relative component
Join(path, component) == path \o <<component>>

\* a path that stops at the two-character directory
StorageGetAssetDir(storage_dir, sha1_hash) ==
    Join(Join(storage_dir, "objects"), SubSeq(sha1_hash, 1, 2))

\* Storage::get_asset_path of a store rooted at storage_dir
StorageGetAssetPath(storage_dir, sha1_hash) ==
    Join(Join(Join(storage_dir, "objects"), SubSeq(sha1_hash, 1, 2)),
         sha1_hash)

\* storage directories and the hashes a caller may pass
StorageDirs == {<<"home", ".firelaunch">>, <<"tmp">>}
PathHashes == UNION {[1..k -> {"a", "1"}] : k \in 0..MaxHashLen}

\* get_asset_path is called twice on the same store
ApplyGetAssetPath ==
    /\ NotApplied
    /\ \E dir \in StorageDirs : \E h1, h2 \in PathHashes :
           Apply("Storage::get_asset_path",
                 [storage_dir |-> dir, first |-> h1, second |-> h2],
                 IF AssetPathPanics(h1) \/ AssetPathPanics(h2) THEN Panic
                 ELSE Ok(<<StorageGetAssetPath(dir, h1),
                           StorageGetAssetPath(dir, h2)>>))

\* ---- utils/net.rs : the gateway of a NetClient
\* A string is the sequence of its pieces.
DefaultOrigin == <<"https://ipfs.frsqr.xyz">>
\* NetClient::new and NetClient::from_client
NetClientNew == [ipfs_gateway |-> DefaultOrigin \o <<"/ipfs/">>]

\* NetClient::set_ipfs_gateway
SetIpfsGateway(client, url) == [client EXCEPT !.ipfs_gateway = url]

\* a resolver that puts the /ipfs/ segment between the gateway and the cid
IpfsWithSegment(client, cid) == client.ipfs_gateway \o <<"/ipfs/">> \o cid

\* NetClient::ipfs
Ipfs(client, cid) == client.ipfs_gateway \o cid

\* the urls a caller sets: an origin, an origin with a slash, and an origin
\* with the /ipfs/ segment
Origins == {DefaultOrigin, <<"https://gw.example">>}
GatewayUrls ==
    Origins \cup {o \o <<"/">> : o \in Origins}
            \cup {o \o <<"/ipfs/">> : o \in Origins}
Cids == {<<"CID">>, <<"bafy">>, <<"bafy", "/", "hello.txt">>}

\* a client is made, its gateway is set or left alone, and ipfs is called
ApplyIpfs ==
    /\ NotApplied
    /\ \E set \in {None} \cup {Some(u) : u \in GatewayUrls} : \E cid \in Cids :
           LET client == IF set = None THEN NetClientNew
                         ELSE SetIpfsGateway(NetClientNew, set[1])
           IN  Apply("NetClient::ipfs", [set |-> set, cid |-> cid],
                     Ok(Ipfs(client, cid)))

\* ---- utils/net.rs : download_to and download_and_hash
\* A path is the sequence of its components below the working directory.
\* Path::parent: None for a path without components
Parent(path) ==
    IF path = << >> THEN None ELSE Some(SubSeq(path, 1, Len(path) - 1))

\* fs::File::create succeeds when the directory of the file exists and the
\* path is not a directory itself
CanCreate(fs, path) == Parent(path)[1] \in fs.dirs /\ path \notin fs.dirs

\* what a call returns and did: the Result's variant and value, the file
\* system after it, and the number of requests it sent
Fetched(res, val, fs, reqs) == [res |-> res, val |-> val, fs |-> fs, reqs |-> reqs]

\* a body that creates the file before it sends the request: the file is
\* cut short even when the request fails
NetFetchCreateFirst(fs, body, path, o, val) ==
    IF Parent(path) = None
    THEN Fetched("DirectoryNotExists", << >>, fs, 0)
    ELSE IF ~CanCreate(fs, path) THEN Fetched("IOError", << >>, fs, 0)
    ELSE IF o \in {"fail", "cut"}
    THEN Fetched("NetworkError", << >>,
                 [fs EXCEPT !.files = WriteFile(fs.files, path, CutOf(body))], 1)
    ELSE Fetched("Ok", val,
                 [fs EXCEPT !.files = WriteFile(fs.files, path, body)], 1)

\* the common body of the two functions; o is how the request goes: "fail"
\* (send fails), "cut" (a chunk fails after the first ones), "ok"
NetFetch(fs, body, path, o, val) ==
    IF Parent(path) = None
    THEN Fetched("DirectoryNotExists", << >>, fs, 0)
    ELSE IF o = "fail" THEN Fetched("NetworkError", << >>, fs, 1)
    ELSE IF ~CanCreate(fs, path) THEN Fetched("IOError", << >>, fs, 1)
    ELSE IF o = "cut"
    THEN Fetched("NetworkError", << >>,
                 [fs EXCEPT !.files = WriteFile(fs.files, path, CutOf(body))], 1)
    ELSE Fetched("Ok", val,
                 [fs EXCEPT !.files = WriteFile(fs.files, path, body)], 1)

\* net::download_to
DownloadTo(fs, body, path, o) == NetFetch(fs, body, path, o, << >>)

\* net::download_and_hash
DownloadAndHash(fs, body, path, o) == NetFetch(fs, body, path, o, Sha1(body))

\* destinations, and the directories that exist when the call is made
DestPaths == {<< >>, <<"hello.txt">>, <<"objects", "a1">>,
              <<"objects", "a1", "a17">>}
DirSets == {{<< >>}, {<< >>, <<"objects">>},
            {<< >>, <<"objects">>, <<"objects", "a1">>}}

\* what the destination holds when the call is made: nothing, or, where a
\* file can be there, a blob written earlier
FilesBefore(dirs, path) ==
    {<< >>} \cup
    IF Parent(path) # None /\ CanCreate([dirs |-> dirs], path)
    THEN {[p \in {path} |-> Blob(H2)]} ELSE {}

ApplyDownloadTo ==
    /\ NotApplied
    /\ \E dirs \in DirSets : \E path \in DestPaths :
       \E files \in FilesBefore(dirs, path) : \E o \in {"ok", "fail", "cut"} :
           Apply("net::download_to",
                 [dirs |-> dirs, files |-> files, path |-> path, o |-> o],
                 DownloadTo([dirs |-> dirs, files |-> files], Blob(H1), path, o))

ApplyDownloadAndHash ==
    /\ NotApplied
    /\ \E dirs \in DirSets : \E path \in DestPaths :
       \E files \in FilesBefore(dirs, path) : \E o \in {"ok", "fail", "cut"} :
           Apply("net::download_and_hash",
                 [dirs |-> dirs, files |-> files, path |-> path, o |-> o],
                 DownloadAndHash([dirs |-> dirs, files |-> files], Blob(H1),
                                 path, o))

\* ---- structures/asset_index.rs : the index file as serde_json writes and
\* reads it. A string is the sequence of its characters; a JSON object of the
\* index is the sequence of its members, each with the texts of its fields.
\* a writer that copies strings without escaping
EscapeNothing(s) == s

\* serde_json writes a quote or a backslash with a backslash before it
RECURSIVE Escape(_)
Escape(s) ==
    IF s = << >> THEN << >>
    ELSE (IF Head(s) \in {"\"", "\\"} THEN <<"\\", Head(s)>> ELSE <<Head(s)>>)
         \o Escape(Tail(s))

\* the string a JSON string text stands for; None if the text is no string
RECURSIVE Unescape(_)
Unescape(t) ==
    IF t = << >> THEN Some(<< >>)
    ELSE IF Head(t) = "\"" THEN None
    ELSE IF Head(t) = "\\"
    THEN IF Len(t) < 2 \/ t[2] \notin {"\"", "\\"} THEN None
         ELSE LET rest == Unescape(SubSeq(t, 3, Len(t)))
              IN  IF rest = None THEN None ELSE Some(<<t[2]>> \o rest[1])
    ELSE LET rest == Unescape(Tail(t))
         IN  IF rest = None THEN None ELSE Some(<<Head(t)>> \o rest[1])

\* a u64 written in decimal, and read back
RECURSIVE Digits(_)
Digits(n) == IF n < 10 THEN <<n>> ELSE Digits(n \div 10) \o <<n % 10>>
RECURSIVE Number(_)
Number(ds) ==
    IF Len(ds) = 1 THEN ds[1]
    ELSE 10 * Number(SubSeq(ds, 1, Len(ds) - 1)) + ds[Len(ds)]

\* the member serde_json writes for one name and entry
MemberText(name, entry) ==
    [key |-> Escape(name), hash |-> Escape(entry.hash),
     path |-> Escape(entry.path), size |-> Digits(entry.size)]

\* serde_json::to_string(&self) with the map iterated in the order ord
ToJson(objs, ord) == [i \in 1..Len(ord) |-> MemberText(ord[i], objs[ord[i]])]

\* serde_json::from_str: every string must be well formed; of two members
\* with the same key the later one is kept
FromStr(text) ==
    LET texts == {text[i].key : i \in 1..Len(text)}
                 \cup {text[i].hash : i \in 1..Len(text)}
                 \cup {text[i].path : i \in 1..Len(text)}
        last(k) == Max({i \in 1..Len(text) : Unescape(text[i].key) = Some(k)})
    IN  IF \E t \in texts : Unescape(t) = None
        THEN [ok |-> FALSE, objects |-> << >>]
        ELSE [ok |-> TRUE,
              objects |->
                [k \in {Unescape(text[i].key)[1] : i \in 1..Len(text)} |->
                    [hash |-> Unescape(text[last(k)].hash)[1],
                     path |-> Unescape(text[last(k)].path)[1],
                     size |-> Number(text[last(k)].size)]]]

\* the names and entries of the documents that are parsed
JsonNames == {<<"a">>, <<"a", "\"">>, <<"\\">>}
JsonEntries == {[hash |-> h, path |-> <<"P", "\\", "1">>, size |-> n] :
                    h \in {H1, H2}, n \in {7, 120}}
JsonMembers == {MemberText(name, e) : name \in JsonNames, e \in JsonEntries}
JsonTexts == UNION {[1..k -> JsonMembers] : k \in 0..MaxMembers}

\* parse of a document, save of the result, parse of the file that was written
ApplyRoundTrip ==
    /\ NotApplied
    /\ \E text \in JsonTexts : \E ord \in Orders(FromStr(text).objects) :
           LET a == FromStr(text)
               file == ToJson(a.objects, ord)
               written == WriteFile(<< >>, GetIndexPath(IndexHash), file)
           IN  Apply("AssetIndex::save", [text |-> text, ord |-> ord],
                     Ok([parsed |-> a, disk |-> written,
                         reparsed |-> FromStr(written[GetIndexPath(IndexHash)])]))

\* ---- structures/asset_index.rs : download_all
\* a loop that leaves at the first entry that fails
ContinuesIfOk(ret) == ret.res = "Ok"

\* `if let Err(e) = call { log::error!(..) }`: the loop goes on to the next
\* entry whatever the call returned
Continues(ret) == TRUE

\* download_all from the i-th value of the map on; so far it made the calls
\* acc.calls, logged acc.logged errors and the files are acc.disk
RECURSIVE DownloadAllFrom(_, _, _, _, _)
DownloadAllFrom(acc, objs, ord, os, i) ==
    IF i > Len(ord) THEN [acc EXCEPT !.res = "Ok"]
    ELSE LET asset == objs[ord[i]]
         IN  IF AssetPathPanics(asset.hash) THEN [acc EXCEPT !.res = "Panic"]
             ELSE LET ret == DownloadAssetIfNotExists(acc.disk, asset.hash,
                                                       asset.path, os[i])
                      next == [disk |-> ret.disk,
                               res |-> acc.res,
                               calls |-> Append(acc.calls,
                                   [name |-> ord[i],
                                    had |-> GetAssetPath(asset.hash)
                                                \in DOMAIN acc.disk,
                                    o |-> os[i],
                                    res |-> ret.res,
                                    reqs |-> ret.reqs]),
                               logged |-> acc.logged
                                   + (IF ret.res # "Ok" THEN 1 ELSE 0)]
                  IN  IF Continues(ret)
                      THEN DownloadAllFrom(next, objs, ord, os, i + 1)
                      ELSE [next EXCEPT !.res = "Err"]

\* AssetIndex::download_all; get_assets yields the values in the order ord
DownloadAll(d, objs, ord, os) ==
    DownloadAllFrom([disk |-> d, res |-> "running", calls |-> << >>,
                     logged |-> 0], objs, ord, os, 1)

\* an index with an entry whose hash has a single character
ObjectsMixed == [n \in {"a", "s"} |->
                    IF n = "a" THEN Entry(H1, "P1", 10)
                    ELSE Entry(HShort, "P3", 5)]
AllIndexes == {Objects2, ObjectsDup, ObjectsMixed}
\* stores in which the second asset is missing
AllDisks == {d \in StoreDisks : GetAssetPath(H2) \notin DOMAIN d}

ApplyDownloadAll ==
    /\ NotApplied
    /\ \E objs \in AllIndexes : \E ord \in Orders(objs) :
       \E d \in AllDisks : \E os \in [1..Len(ord) -> StoreOutcomes] :
           Apply("AssetIndex::download_all",
                 [objects |-> objs, ord |-> ord, disk |-> d, os |-> os],
                 DownloadAll(d, objs, ord, os))

\* ---- storage.rs : Storage::new, and a save into the store it returns
\* Path::exists
Exists(fs, path) == path \in fs.dirs \/ path \in DOMAIN fs.files

\* the directories create_dir_all leaves behind
Ancestors(path) == {SubSeq(path, 1, k) : k \in 0..Len(path)}

CreateDirs == <<"objects", "indexes", "libraries">>

\* a constructor that fails when a directory could not be created
NewResultStrict(logged) == IF logged > 0 THEN "Err" ELSE "Ok"

\* new returns Self whatever the loop logged
NewResult(logged) == "Ok"

\* the loop over create_dirs from the i-th directory on; failing holds the
\* names whose create_dir_all returns an error
RECURSIVE CreateFrom(_, _, _, _)
CreateFrom(acc, storage_dir, failing, i) ==
    IF i > Len(CreateDirs) THEN acc
    ELSE LET dir == Join(storage_dir, CreateDirs[i])
         IN  IF Exists(acc.fs, dir)
             THEN CreateFrom(acc, storage_dir, failing, i + 1)
             ELSE IF CreateDirs[i] \in failing
             THEN CreateFrom([acc EXCEPT !.logged = @ + 1], storage_dir,
                             failing, i + 1)
             ELSE CreateFrom([acc EXCEPT !.fs.dirs = @ \cup Ancestors(dir)],
                             storage_dir, failing, i + 1)

\* Storage::new(client, Some(storage_dir))
StorageNew(fs, storage_dir, failing) ==
    LET done == CreateFrom([fs |-> fs, logged |-> 0], storage_dir, failing, 1)
    IN  [res |-> NewResult(done.logged),
         store |-> [storage_dir |-> storage_dir],
         fs |-> done.fs, logged |-> done.logged]

\* AssetIndex::save into a store on fs: tokio::fs::write needs the directory
\* of the file; o is how the write goes when it exists
SaveIn(fs, store, objs, h, ord, o) ==
    LET path == store.storage_dir \o GetIndexPath(h)
    IN  IF ~CanCreate(fs, path) \/ o # "ok" THEN [fs |-> fs, res |-> "IO"]
        ELSE [fs |-> [fs EXCEPT !.files = WriteFile(@, path,
                                              SerdeToString(objs, ord))],
              res |-> "Ok"]

\* what is on disk before the store is made: nothing, the storage directory,
\* two of its subdirectories, or a file in the place of indexes
FsBefore(storage_dir) ==
    { [dirs |-> {<< >>}, files |-> << >>],
      [dirs |-> Ancestors(storage_dir), files |-> << >>],
      [dirs |-> Ancestors(Join(storage_dir, "objects"))
                \cup Ancestors(Join(storage_dir, "indexes")),
       files |-> << >>],
      [dirs |-> Ancestors(storage_dir),
       files |-> WriteFile(<< >>, Join(storage_dir, "indexes"),
                           Blob(JunkHash))] }

\* a store is made and an index is saved into it
ApplyStorageNew ==
    /\ NotApplied
    /\ \E dir \in StorageDirs : \E fs \in FsBefore(dir) :
       \E failing \in SUBSET Range(CreateDirs) : \E o \in {"ok", "fail"} :
           LET made == StorageNew(fs, dir, failing)
           IN  Apply("Storage::new",
                     [storage_dir |-> dir, fs |-> fs, failing |-> failing,
                      o |-> o],
                     [res |-> made.res, store |-> made.store, fs |-> made.fs,
                      logged |-> made.logged,
                      save |-> SaveIn(made.fs, made.store, Objects2, IndexHash,
                                      <<"a", "b">>, o)])

\* a JSON object as the deserializer sees it: the member "action" is absent,
\* a string or a number, the member "os" absent or an object with a name
JsonStr(v) == [type |-> "string", v |-> v]
JsonNum(v) == [type |-> "number", v |-> v]
RuleObjects ==
    {[action |-> a, os |-> o] :
        a \in {None, Some(JsonNum(1))} \cup {Some(JsonStr(v)) : v \in RuleActions},
        o \in {None} \cup {Some([name |-> n]) : n \in RuleOsNames}}

\* a Rule whose action must be one of the two known words
DeserializeRuleStrict(obj) ==
    IF obj.action = None THEN [res |-> "Err", val |-> "missing field"]
    ELSE IF obj.action[1].type # "string" \/ obj.action[1].v \notin {"allow", "disallow"}
    THEN [res |-> "Err", val |-> "invalid type"]
    ELSE Ok([action |-> obj.action[1].v, os |-> obj.os])

\* version_manifest.rs lines 128-134: the derived Deserialize of Rule;
\* action is a String, any string is taken, os is optional
DeserializeRule(obj) ==
    IF obj.action = None THEN [res |-> "Err", val |-> "missing field"]
    ELSE IF obj.action[1].type # "string"
    THEN [res |-> "Err", val |-> "invalid type"]
    ELSE Ok([action |-> obj.action[1].v, os |-> obj.os])

ApplyDeserializeRule ==
    /\ NotApplied
    /\ \E obj \in RuleObjects :
           Apply("Rule::deserialize", [obj |-> obj], DeserializeRule(obj))

InitPure ==
    /\ PoolIdle
    /\ WorkerInit
    /\ StoreIdle
    /\ BarIdle
    /\ ProbeIdle
    /\ PureIdle
    /\ JoinIdle
    /\ world = [doc |-> Doc(Objects2, <<"a", "b">>, TRUE), flaky |-> {},
                store0 |-> << >>]
    /\ disk = world.store0

NextPure ==
    \/ ApplyIsSatisfied
    \/ ApplyIsRulesSatisfied
    \/ ApplyGetArtifacts
    \/ ApplyGetAssetPath
    \/ ApplyIpfs
    \/ ApplyDownloadTo
    \/ ApplyDownloadAndHash
    \/ ApplyRoundTrip
    \/ ApplyDownloadAll
    \/ ApplyStorageNew
    \/ ApplyDeserializeRule

SpecPure == InitPure /\ [][NextPure]_vars

\* ---- gui/async_worker.rs : the connectivity probe beside the sync runs
ProbeIds == 1..Len(probes)

\* a check_connection task that has just been spawned; runs_before is the
\* number of runs spawned when its request returned
NewProbe == [pc |-> "send", result |-> "none", sent |-> << >>, runs_before |-> 0]

\* a probe that reports whatever the request returned
ProbeMessagesAlways(result) == <<[type |-> "InternetUnavailable"]>>

\* check_connection, lines 62-67: the messages sent for the request's result
ProbeMessages(result) ==
    IF result = "Err" THEN <<[type |-> "InternetUnavailable"]>> ELSE << >>

\* AsyncWorkerModel::update(AsyncWorkerMsg::CheckConnection)
UpdateCheckConnection ==
    /\ Len(probes) < MaxProbes
    /\ probes' = Append(probes, NewProbe)
    /\ UNCHANGED <<poolVars, syncVars, storeVars, barVars, pureVars, joinVars>>

\* check_connection: the request to the gateway returns, and the task ends
CheckConnection(i) ==
    /\ i \in ProbeIds
    /\ probes[i].pc = "send"
    /\ \E result \in {"Ok", "Err"} :
          probes' = [probes EXCEPT ![i] =
                        [pc |-> "done", result |-> result,
                         sent |-> ProbeMessages(result),
                         runs_before |-> Len(runs)]]
    /\ UNCHANGED <<poolVars, syncVars, storeVars, barVars, pureVars, joinVars>>

InitProbe ==
    /\ PoolIdle
    /\ WorkerInit
    /\ StoreIdle
    /\ BarIdle
    /\ ProbeIdle
    /\ PureIdle
    /\ JoinIdle
    /\ world = [doc |-> Doc(Objects2, <<"a", "b">>, TRUE), flaky |-> {},
                store0 |-> << >>]
    /\ disk = world.store0

NextProbe ==
    \/ Next
    \/ UpdateCheckConnection
    \/ \E i \in 1..MaxProbes : CheckConnection(i)

SpecProbe == InitProbe /\ [][NextProbe]_vars

\* ---- gui/async_worker.rs : the two loops of download_assets around the
\* JoinSet, for an index of more entries than the set may hold. The units are
\* JoinSet<()> tasks without a name: the set is its length and the number of
\* its units that have completed. The progress messages of these loops are in
\* RunSpawnNext and RunJoinNext and are left out here.
\* download_assets has reached the for loop over an index of length entries
JoinStart(length) ==
    [pc |-> IF length = 0 THEN "join" ELSE "spawn",
     length |-> length,     \* index.objects.len()
     todo |-> length,       \* entries get_assets() has yet to yield
     len |-> 0,             \* download_tasks.len()
     done |-> 0,            \* units in the set that have completed
     spawned |-> 0]         \* calls of download_tasks.spawn

\* the task has ended: Ok, or the panic of an unwrap; its locals are dropped
JoinEnded(result) == [pc |-> result]

\* lines 122-146, one iteration of the for loop: a join_next first when the
\* set is full, then the spawn
JoinSpawnNext ==
    /\ download_tasks.pc = "spawn"
    /\ LET t == download_tasks
       IN  IF Full(t.len)
           THEN /\ t.done >= 1
                /\ \E res \in {"Ok", "Err"} :
                     download_tasks' =
                        IF res = "Err" THEN JoinEnded("panic")
                        ELSE [t EXCEPT !.pc = IF t.todo = 1 THEN "join"
                                              ELSE "spawn",
                                       !.todo = @ - 1,
                                       !.done = @ - 1,
                                       !.spawned = @ + 1]
           ELSE download_tasks' =
                    [t EXCEPT !.pc = IF t.todo = 1 THEN "join" ELSE "spawn",
                              !.todo = @ - 1,
                              !.len = @ + 1,
                              !.spawned = @ + 1]
    /\ UNCHANGED <<poolVars, syncVars, storeVars, barVars, probeVars, pureVars>>

\* a unit of the set leaves its retry loop, or panics
JoinUnitEnds ==
    /\ download_tasks.pc \in {"spawn", "join"}
    /\ download_tasks.done < download_tasks.len
    /\ download_tasks' = [download_tasks EXCEPT !.done = @ + 1]
    /\ UNCHANGED <<poolVars, syncVars, storeVars, barVars, probeVars, pureVars>>

\* lines 148-151, one iteration of the while loop
JoinJoinNext ==
    /\ download_tasks.pc = "join"
    /\ download_tasks.len > 0
    /\ download_tasks.done >= 1
    /\ \E res \in {"Ok", "Err"} :
         download_tasks' =
            IF res = "Err" THEN JoinEnded("panic")
            ELSE [download_tasks EXCEPT !.len = @ - 1, !.done = @ - 1]
    /\ UNCHANGED <<poolVars, syncVars, storeVars, barVars, probeVars, pureVars>>

\* join_next yields None: the while loop ends and the task returns Ok
JoinFinish ==
    /\ download_tasks.pc = "join"
    /\ download_tasks.len = 0
    /\ download_tasks' = [download_tasks EXCEPT !.pc = "ok"]
    /\ UNCHANGED <<poolVars, syncVars, storeVars, barVars, probeVars, pureVars>>

InitJoin ==
    /\ PoolIdle
    /\ WorkerInit
    /\ StoreIdle
    /\ BarIdle
    /\ ProbeIdle
    /\ PureIdle
    /\ world = [doc |-> DocBad, flaky |-> {}, store0 |-> << >>]
    /\ disk = world.store0
    /\ download_tasks \in {JoinStart(n) : n \in {0, 2, MaxEntries}}

NextJoin ==
    \/ JoinSpawnNext
    \/ JoinUnitEnds
    \/ JoinJoinNext
    \/ JoinFinish

SpecJoin == InitJoin /\ [][NextJoin]_vars

(***************************************************************************)
(*                           claims C1 .. C10                              *)
(***************************************************************************)
\* the tasks that have been started and have not finished
InFlight == {t \in TaskIds : taskState[t] = "running"}

\* C1: used as in the doc example, push(tokio::spawn(..)).await, a pool built
\* with max_tasks = N >= 1 never has more than N started, unfinished tasks.
C1_InFlightWithinMax ==
    max_tasks >= 1 => Cardinality(InFlight) <= max_tasks

\* C2: a handle leaves the tracked set, in push or in wait, only when its task
\* has finished; wait returns only with the tracked set empty and every task
\* ever added by push finished; on an empty pool a turn of wait's loop returns.
C2_WaitReturnsAfterAllFinished ==
    [][ /\ \A t \in Range(tasks) \ Range(tasks') : taskState[t] = "finished"
        /\ (ppc = "wait" /\ ppc' # "wait") =>
              /\ ppc' = "waited"
              /\ tasks' = << >>
              /\ \A t \in pushed : taskState'[t] = "finished"
        /\ (ppc = "wait" /\ tasks = << >> /\ taskState' = taskState) =>
              ppc' = "waited"
      ]_vars

\* wait has returned after three tasks went through push with max_tasks = 2
C2_Witness ==
    /\ ppc = "waited"
    /\ max_tasks = 2
    /\ Cardinality(pushed) >= 3

\* the download_assets tasks that have not ended
Unfinished == {r \in RunIds : ~RunFinished(r)}

\* C3: at every moment at most one download_assets run is unfinished.
C3_AtMostOneRun == Cardinality(Unfinished) <= 1

\* a second run is under way after the first one ended
C3_Witness ==
    /\ Len(runs) = 2
    /\ RunFinished(1)
    /\ ~RunFinished(2)

\* C4: a DownloadAssets command that arrives while the run is unfinished
\* changes neither the stored handle nor the runs, the files or the messages
\* sent; and a run is spawned only by a step that receives a command while no
\* run is unfinished, so a rejected command starts nothing later.
C4_BusyCommandIsNoOp ==
    [][ /\ (cmds' # cmds /\ HandleBusy) =>
              /\ download_assets_handle' = download_assets_handle
              /\ runs' = runs
              /\ outbox' = outbox
              /\ disk' = disk
        /\ Len(runs') # Len(runs) =>
              /\ Len(runs') = Len(runs) + 1
              /\ cmds' = cmds + 1
              /\ ~HandleBusy
      ]_vars

\* the second command was rejected, the run has ended since, and no other run
\* has started
C4_Witness ==
    /\ cmds = 2
    /\ Len(runs) = 1
    /\ runs[1].pc = "ok"

\* a unit of run r has used up its retries
GaveUp(r) ==
    /\ r \in RunIds
    /\ \E n \in DOMAIN runs[r].units : runs[r].units[n].retries > MaxRetries

\* every index entry of run r has its unit, and every unit has finished
AllUnitsFinished(r) ==
    /\ DOMAIN runs[r].units = DOMAIN runs[r].objects
    /\ \A n \in DOMAIN runs[r].units : runs[r].units[n].st = "finished"

\* C5: once a unit has used up its retries the run goes on: it does not end
\* with an error or a panic, it ends only after a unit was spawned for every
\* entry and all of them were joined, then with HideProgressBar and Ok; and
\* it does end.
C5_FailedAssetDoesNotAbort ==
    /\ [][ \A r \in RunIds : GaveUp(r) =>
              /\ runs'[r].pc \in {"spawn", "join", "ok"}
              /\ runs'[r].pc = "ok" =>
                    /\ runs[r].joinset = {}
                    /\ AllUnitsFinished(r)
                    /\ outbox' = Append(outbox, MsgHide(r))
         ]_vars
    /\ \A r \in 1..MaxCmds : GaveUp(r) ~> (r \in RunIds /\ runs[r].pc = "ok")

\* both units were spawned and joined, one of them after using up its retries
C5_Witness ==
    \E r \in RunIds :
        /\ GaveUp(r)
        /\ runs[r].pc = "join"
        /\ runs[r].joinset = {}
        /\ Cardinality(DOMAIN runs[r].units) = 2
        /\ \E n \in DOMAIN runs[r].units : runs[r].units[n].retries = 0

\* C6 as stated: no unit makes more than 10 attempts.
C6_AtMostTenAttempts ==
    \A r \in RunIds : \A n \in DOMAIN runs[r].units :
        runs[r].units[n].attempts <= 10

\* C6 as amended: a unit makes at most 11 attempts, the first one and 10
\* retries. While it runs every attempt so far has failed; it finishes either
\* with its first successful attempt or with its 11th failed one, and makes no
\* attempt after that.
C6_AtMostElevenAttempts ==
    /\ [](\A r \in RunIds : \A n \in DOMAIN runs[r].units :
            LET u == runs[r].units[n]
            IN  /\ u.attempts <= MaxRetries + 1
                /\ u.st = "running" =>
                      u.attempts = u.retries /\ u.retries <= MaxRetries
                /\ u.st = "finished" =>
                      \/ u.attempts = u.retries + 1 /\ u.retries <= MaxRetries
                      \/ u.attempts = u.retries /\ u.retries = MaxRetries + 1)
    /\ [][ \A r \in RunIds : \A n \in DOMAIN runs[r].units :
              (runs[r].units[n].st = "finished" /\ n \in DOMAIN runs'[r].units)
                 => runs'[r].units[n] = runs[r].units[n]
         ]_vars

\* a unit has given up after its 11th failed attempt
C6_Witness ==
    \E r \in RunIds : \E n \in DOMAIN runs[r].units :
        /\ runs[r].units[n].st = "finished"
        /\ runs[r].units[n].attempts = MaxRetries + 1
        /\ runs[r].units[n].retries = MaxRetries + 1

\* C7: a run that ends with an error of the index fetch or of the index save
\* has spawned no unit and has sent the observer a SyncFailed message.
C7_IndexFailureSurfaced ==
    \A r \in RunIds : runs[r].pc = "err" =>
        /\ runs[r].units = << >>
        /\ \E i \in 1..Len(outbox) :
              outbox[i].type = "SyncFailed" /\ outbox[i].run = r

\* the index blob is valid on disk, run r holds its parsed objects and the
\* index file is written with the same objects
IndexReady(r) ==
    /\ CheckAsset(disk, IndexHash)
    /\ runs[r].objects = world.doc.objects
    /\ Parse(disk, GetIndexPath(IndexHash)).ok
    /\ Parse(disk, GetIndexPath(IndexHash)).objects = runs[r].objects

\* C8: a run moves through fetch index, persist index, download assets, done
\* in this order, and whenever a run has a unit (so before any attempt of a
\* unit) the index is fetched, parsed and written to indexes/<hash>.json.
C8_IndexBeforeAssets ==
    /\ [](\A r \in RunIds :
            /\ runs[r].units # << >> => runs[r].pc \in {"spawn", "join"}
            /\ runs[r].pc \in {"spawn", "join"} => IndexReady(r))
    /\ [][ \A r \in RunIds : runs'[r].pc # runs[r].pc =>
              <<runs[r].pc, runs'[r].pc>> \in
                 { <<"fetch_index", "save_index">>, <<"fetch_index", "err">>,
                   <<"save_index", "spawn">>, <<"save_index", "join">>,
                   <<"save_index", "err">>,
                   <<"spawn", "join">>, <<"spawn", "panic">>,
                   <<"join", "ok">>, <<"join", "panic">> }
         ]_vars

\* a unit has made an attempt
C8_Witness ==
    \E r \in RunIds : \E n \in DOMAIN runs[r].units :
        runs[r].units[n].attempts > 0

\* the messages of the outbox that run r sent
SentBy(r) == SelectSeq(outbox, LAMBDA m : m.run = r)
Hides(r) == SelectSeq(outbox, LAMBDA m : m.run = r /\ m.type = "HideProgressBar")

\* no entry of run r's index makes get_asset_path panic
NoPanic(r) ==
    \A n \in DOMAIN runs[r].objects : ~AssetPathPanics(runs[r].objects[n].hash)

\* C9: a run whose index was fetched and saved, and whose attempts all return,
\* ends with Ok; the run that ends so sends HideProgressBar in that step, with
\* every entry's unit finished; the latest run has sent HideProgressBar once,
\* as its last message, if it has ended with Ok, and never otherwise.
C9_FinishedSignal ==
    /\ \A r \in 1..MaxCmds :
          (r \in RunIds /\ runs[r].pc \in {"spawn", "join"} /\ NoPanic(r))
             ~> (r \in RunIds /\ runs[r].pc = "ok")
    /\ [][ \A r \in RunIds : (runs[r].pc # "ok" /\ runs'[r].pc = "ok") =>
              /\ AllUnitsFinished(r)
              /\ outbox' = Append(outbox, MsgHide(r))
         ]_vars
    /\ [](\A r \in RunIds : r = Len(runs) =>
            IF runs[r].pc = "ok"
            THEN /\ Len(Hides(r)) = 1
                 /\ SentBy(r)[Len(SentBy(r))] = MsgHide(r)
            ELSE Len(Hides(r)) = 0)

\* a run has ended with Ok after sending progress messages and, last of
\* all, HideProgressBar
C9_Witness ==
    \E r \in RunIds :
        /\ runs[r].pc = "ok"
        /\ r = Len(runs)
        /\ Len(outbox) >= 5
        /\ outbox[Len(outbox)] = MsgHide(r)
        /\ outbox[Len(outbox) - 1].type = "SetProgressBarFraction"

\* the files under objects/
ObjectPaths == {p \in DOMAIN disk : p[1] = "objects"}

PathH1 == <<"objects", <<"a", "1">>, <<"a", "1", "7">>>>
PathH2 == <<"objects", <<"c", "4">>, <<"c", "4", "e">>>>
PathIndexBlob == <<"objects", <<"0", "b">>, <<"0", "b", "3">>>>
PathIndexFile == <<"indexes", <<"0", "b", "3", ".json">>>>

\* the end-to-end scenario: the index lists H1 and H2, nothing fails, the
\* store held neither blob, and the first run has ended
EndToEnd ==
    /\ world.doc.kind = "json"
    /\ world.doc.objects = Objects2
    /\ world.flaky = {}
    /\ PathH1 \notin DOMAIN world.store0
    /\ PathH2 \notin DOMAIN world.store0
    /\ Len(runs) = 1
    /\ RunFinished(1)

\* C10 as stated: exactly two blobs under objects/, an index file equal to
\* the original document, and a final finished message.
C10_ExactlyTwoBlobs ==
    EndToEnd =>
        /\ ObjectPaths = {PathH1, PathH2}
        /\ disk[PathH1] = Blob(H1)
        /\ disk[PathH2] = Blob(H2)
        /\ PathIndexFile \in DOMAIN disk
        /\ disk[PathIndexFile] = world.doc
        /\ runs[1].pc = "ok"
        /\ outbox # << >>
        /\ outbox[Len(outbox)] = MsgHide(1)

\* C10 as amended: three files under objects/, the two blobs and the index
\* document itself at objects/<index_hash[0:2]>/<index_hash>; the index file
\* is the compact serialisation of the parsed index, with the objects of the
\* original document; the run ends with Ok and HideProgressBar last.
C10_TwoBlobsAndIndexBlob ==
    EndToEnd =>
        /\ ObjectPaths = {PathH1, PathH2, PathIndexBlob}
        /\ disk[PathH1] = Blob(H1)
        /\ disk[PathH2] = Blob(H2)
        /\ disk[PathIndexBlob] = world.doc
        /\ PathIndexFile \in DOMAIN disk
        /\ disk[PathIndexFile].kind = "json"
        /\ disk[PathIndexFile].objects = world.doc.objects
        /\ disk[PathIndexFile].spaced = FALSE
        /\ runs[1].pc = "ok"
        /\ outbox # << >>
        /\ outbox[Len(outbox)] = MsgHide(1)

\* the end-to-end run has ended
C10_Witness ==
    /\ EndToEnd
    /\ world.store0 = << >>
    /\ world.doc.spaced
    /\ cmds = 1


(***************************************************************************)
(*                           claims C11 .. C20                             *)
(***************************************************************************)
\* the storage directory as the latest Storage call found it
Before == IF call.seq = 1 THEN world.store0 ELSE call.prev.got.disk

Present(d, h) == GetAssetPath(h) \in DOMAIN d
\* the file at h's path holds bytes whose digest is h
Valid(d, h) == Present(d, h) /\ Sha1(d[GetAssetPath(h)]) = h

Called(op) == call.seq >= 1 /\ call.op = op

\* the latest call made no request, changed no file and returned h's path
Untouched ==
    /\ call.got.reqs = 0
    /\ disk = Before
    /\ call.got.res = "Ok"
    /\ call.ret = GetAssetPath(call.hash)

\* C11: download_asset_if_not_exists on a present, valid blob makes no
\* request, changes no file and returns the blob's path; and a call that
\* follows a successful call for the same hash makes no request, changes no
\* file and returns the same path.
C11_IfNotExistsIdempotent ==
    Called("download_asset_if_not_exists") =>
        /\ Valid(Before, call.hash) => Untouched
        /\ ( /\ call.seq >= 2
             /\ call.prev.op = "download_asset_if_not_exists"
             /\ call.prev.hash = call.hash
             /\ call.prev.got.res = "Ok" )
           => (Untouched /\ call.ret = call.prev.ret)

\* the first call downloaded the blob, the second found it
C11_Witness ==
    /\ Called("download_asset_if_not_exists")
    /\ call.seq = 2
    /\ call.prev.op = "download_asset_if_not_exists"
    /\ call.prev.hash = call.hash
    /\ call.prev.got.reqs = 1
    /\ call.prev.got.res = "Ok"
    /\ call.got.reqs = 0
    /\ Valid(disk, call.hash)

\* the request of the latest call streams to the end bytes with h's digest
ServesRight ==
    /\ call.how = "ok"
    /\ Sha1(Served(call.loc)) = call.hash

StreamDigest ==
    IF call.how = "wrong" THEN JunkHash ELSE Sha1(Served(call.loc))

\* C13: download_asset returns Ok only with a file of the hash's digest on
\* disk; when the stream reaches its end with another digest it returns
\* HashMismatch(hash, digest) and the streamed bytes are at the hash's path.
C13_MismatchNeverSuccess ==
    Called("download_asset") =>
        /\ call.got.res = "Ok" => Valid(disk, call.hash)
        /\ (call.how \in {"ok", "wrong"} /\ StreamDigest # call.hash) =>
              /\ call.got.res = "HashMismatch"
              /\ call.got.mismatch = <<call.hash, StreamDigest>>
              /\ call.ret = << >>
              /\ Present(disk, call.hash)
              /\ Sha1(disk[GetAssetPath(call.hash)]) = StreamDigest

\* the gateway served the other asset's bytes over a valid blob
C13_Witness ==
    /\ Called("download_asset")
    /\ call.seq = 1
    /\ call.hash = H1
    /\ call.how = "ok"
    /\ Valid(Before, H1)
    /\ call.got.res = "HashMismatch"
    /\ disk[GetAssetPath(H1)] = Blob(H2)

C16_IfNotExistsNeverVerifies ==
    ( /\ Called("download_asset_if_not_exists")
      /\ Present(Before, call.hash) )
    => /\ Untouched
       /\ call.got.checks = 0

\* download_asset failed with HashMismatch, the retry reports success and the
\* blob is invalid
C16_Witness ==
    /\ Called("download_asset_if_not_exists")
    /\ call.seq = 2
    /\ call.prev.op = "download_asset"
    /\ call.prev.hash = call.hash
    /\ call.prev.got.res = "HashMismatch"
    /\ call.got.res = "Ok"
    /\ ~Valid(disk, call.hash)


\* the units of run r whose task has returned
ReturnedUnits(r) == {n \in DOMAIN runs[r].units : runs[r].units[n].st = "finished"}
\* the units of run r whose task has ended, by returning or by a panic
EndedUnits(r) == {n \in DOMAIN runs[r].units : runs[r].units[n].st # "running"}

\* the fraction messages of the outbox, in the order they were sent
Fractions == SelectSeq(outbox, LAMBDA m : m.type = "SetProgressBarFraction")

\* C17: in a run the counter equals the number of units that have returned
\* (all the units that have ended, when no hash makes get_asset_path panic)
\* and is at most the number of index entries; while the run lasts a step
\* leaves it unchanged or adds one, and adds one exactly when a unit returns;
\* every fraction sent is within [0, 1] and fractions never decrease.
C17_CounterExact ==
    /\ [](\A r \in RunIds :
            /\ runs[r].count = Cardinality(ReturnedUnits(r))
            /\ runs[r].count <= Cardinality(DOMAIN runs[r].objects)
            /\ NoPanic(r) => runs[r].count = Cardinality(EndedUnits(r)))
    /\ [][ \A r \in RunIds : runs'[r].pc \in {"spawn", "join"} =>
              /\ runs'[r].count \in {runs[r].count, runs[r].count + 1}
              /\ runs'[r].count = runs[r].count + 1
                    <=> ReturnedUnits(r) # {n \in DOMAIN runs'[r].units :
                                           runs'[r].units[n].st = "finished"}
         ]_vars
    /\ [](\A i \in 1..Len(Fractions) :
            /\ Fractions[i].den > 0
            /\ 0 <= Fractions[i].num
            /\ Fractions[i].num <= Fractions[i].den
            /\ \A j \in 1..Len(Fractions) : i < j =>
                  Fractions[i].num * Fractions[j].den
                     <= Fractions[j].num * Fractions[i].den)

\* both units have returned and the fractions 1/2 and 2/2 were sent
C17_Witness ==
    \E r \in RunIds :
        /\ runs[r].count = 2
        /\ Len(Fractions) >= 2
        /\ Fractions[Len(Fractions) - 1].num = 1
        /\ Fractions[Len(Fractions)].num = 2



\* the time the k-th throttled update was sent, and the time before it from
\* which the 10 ms are counted: the previous update or the start of the phase
UpdateTime(k) == sent_at[2 * k]
PreviousTime(k) == IF k = 1 THEN 0 ELSE UpdateTime(k - 1)

\* C18: the messages of a download phase come in pairs, a text and a
\* fraction sent by one call of try_update_bar; each pair is sent more than
\* 10 ms after the pair before it (the first one more than 10 ms after the
\* phase began), whatever the number of units that have ended; and a call
\* sends only when more than 10 ms have passed since last_bar_update.
C18_Throttled ==
    /\ [](/\ Len(outbox) = Len(sent_at)
          /\ Len(outbox) % 2 = 0
          /\ \A k \in 1..(Len(outbox) \div 2) :
                /\ outbox[2 * k - 1].type = "SetProgressBarText"
                /\ outbox[2 * k].type = "SetProgressBarFraction"
                /\ sent_at[2 * k - 1] = sent_at[2 * k]
                /\ UpdateTime(k) - PreviousTime(k) > Throttle)
    /\ [][ outbox' # outbox => now - last_bar_update > Throttle ]_vars

\* two updates were sent 11 ms apart while both units ended in between
C18_Witness ==
    /\ Len(sent_at) = 4
    /\ UpdateTime(2) - UpdateTime(1) = Throttle + 1
    /\ outbox[2].num = 0
    /\ outbox[4].num = 2

\* the units of run r that returned after a successful attempt
Succeeded(r) ==
    {n \in ReturnedUnits(r) : runs[r].units[n].retries <= MaxRetries}

\* C19: the counter counts successes only: it equals the number of units
\* whose asset was fetched or found valid, so with k assets failed for good
\* the final count is total - k.
C19_CountIsSuccessCount ==
    \A r \in RunIds : runs[r].count = Cardinality(Succeeded(r))

\* the units of run r whose task is running
RunningUnits(r) == {n \in DOMAIN runs[r].units : runs[r].units[n].st = "running"}

\* C20: in a run, two units that are running at the same time never have the
\* same blob path as their target.
C20_DistinctBlobPaths ==
    \A r \in RunIds : \A n, m \in RunningUnits(r) :
        n # m => GetAssetPath(runs[r].objects[n].hash)
                    # GetAssetPath(runs[r].objects[m].hash)

(***************************************************************************)
(*                       Rule, Library : C21 .. C23                        *)
(***************************************************************************)
\* the call that was made is a call of fn
Applied(fn) == input.fn = fn

\* the rules of a library, none when the field is absent
RulesOf(lib) == IF lib.rules # None THEN lib.rules[1] ELSE << >>

\* every rule of the library carries one of the two actions
ActionsValid(lib) ==
    \A i \in 1..Len(RulesOf(lib)) :
        RulesOf(lib)[i].action \in {"allow", "disallow"}

\* C21: a rule without an os constraint is satisfied; a rule with the
\* constraint name n, evaluated on the current os c, is satisfied exactly
\* when (action = allow and n = c) or (action = disallow and n # c).
C21_RuleIsSatisfied ==
    (Applied("Rule::is_satisfied")
        /\ input.args.rule.action \in {"allow", "disallow"})
    => LET rule == input.args.rule
           c == input.args.os
       IN  IF rule.os = None THEN output = Ok(TRUE)
           ELSE output = Ok(\/ rule.action = "allow" /\ rule.os[1].name = c
                            \/ rule.action = "disallow" /\ rule.os[1].name # c)

\* a disallow rule naming another os than the current one was satisfied
C21_Witness ==
    /\ Applied("Rule::is_satisfied")
    /\ input.args.rule.action = "disallow"
    /\ input.args.rule.os = Some([name |-> "windows"])
    /\ input.args.os = "linux"
    /\ output = Ok(TRUE)

\* C22: is_rules_satisfied is the conjunction of is_satisfied over the rules
\* of the library, and is true when the rules are absent or empty.
C22_RulesConjunction ==
    (Applied("Library::is_rules_satisfied") /\ ActionsValid(input.args.lib))
    => LET rules == RulesOf(input.args.lib)
           os == input.args.os
       IN  /\ output = Ok(\A i \in 1..Len(rules) : IsSatisfied(rules[i], os))
           /\ rules = << >> => output = Ok(TRUE)

\* a library whose first rule is satisfied and whose second is not
C22_Witness ==
    /\ Applied("Library::is_rules_satisfied")
    /\ ActionsValid(input.args.lib)
    /\ Len(RulesOf(input.args.lib)) = 2
    /\ IsSatisfied(RulesOf(input.args.lib)[1], input.args.os)
    /\ ~IsSatisfied(RulesOf(input.args.lib)[2], input.args.os)
    /\ output = Ok(FALSE)

\* the classifier artifact of the library on os, if the three lookups succeed
ClassifierOf(lib, os) ==
    IF /\ lib.downloads.classifiers # None
       /\ lib.natives # None
       /\ os \in DOMAIN lib.natives[1]
       /\ lib.natives[1][os] \in DOMAIN lib.downloads.classifiers[1]
    THEN Some(lib.downloads.classifiers[1][lib.natives[1][os]])
    ELSE None

C24_AssetPathPure ==
    (/\ Applied("Storage::get_asset_path")
     /\ Len(input.args.first) >= 2
     /\ Len(input.args.second) >= 2)
    => LET root == input.args.storage_dir
           h1 == input.args.first
           h2 == input.args.second
       IN  /\ output.res = "Ok"
           /\ output.val[1] = root \o <<"objects", SubSeq(h1, 1, 2), h1>>
           /\ output.val[2] = root \o <<"objects", SubSeq(h2, 1, 2), h2>>
           /\ h1 = h2 <=> output.val[1] = output.val[2]
           /\ disk = world.store0

\* two distinct hashes with the same first two characters were passed
C24_Witness ==
    /\ Applied("Storage::get_asset_path")
    /\ input.args.first = <<"a", "1", "a">>
    /\ input.args.second = <<"a", "1", "1">>
    /\ output.res = "Ok"
    /\ output.val[1] # output.val[2]

\* the gateway base of the call: the url that was set, or the default origin
GatewayBase == IF input.args.set = None THEN DefaultOrigin
               ELSE input.args.set[1]

\* C25 as stated: ipfs(locator) is <gateway-base>/ipfs/<locator>, for the
\* default gateway and for every base set through set_ipfs_gateway.
C25_BaseIpfsLocator ==
    Applied("NetClient::ipfs")
    => output = Ok(GatewayBase \o <<"/ipfs/">> \o input.args.cid)

\* C25: ipfs(locator) is the gateway string followed at once by the locator;
\* the default gateway string is the default origin with /ipfs/, so a client
\* whose gateway was never set returns <origin>/ipfs/<locator>, and a url set
\* through set_ipfs_gateway is used as it is, with nothing put in between.
C25_GatewayThenLocator ==
    Applied("NetClient::ipfs")
    => IF input.args.set = None
       THEN output = Ok(DefaultOrigin \o <<"/ipfs/">> \o input.args.cid)
       ELSE output = Ok(input.args.set[1] \o input.args.cid)

\* a bare origin was set and the result has no /ipfs/ segment
C25_Witness ==
    /\ Applied("NetClient::ipfs")
    /\ input.args.set = Some(<<"https://gw.example">>)
    /\ input.args.cid = <<"CID">>
    /\ output = Ok(<<"https://gw.example", "CID">>)

\* the call is one of the two download functions of net.rs
AppliedDownload ==
    Applied("net::download_to") \/ Applied("net::download_and_hash")

\* the destination has a parent directory and it is not on the disk
ParentMissing ==
    /\ Parent(input.args.path) # None
    /\ Parent(input.args.path)[1] \notin input.args.dirs

\* C26: download_to and download_and_hash return DirectoryNotExists whenever
\* the parent directory of the destination path does not exist on disk.
C26_DirectoryNotExists ==
    (AppliedDownload /\ ParentMissing) => output.res = "DirectoryNotExists"

\* C27: for an index A obtained by parse, save(A) followed by a parse of the
\* written indexes/<hash>.json gives an index whose objects have the same
\* keys as A and, for each key, the same hash, path and size.
C27_RoundTrip ==
    Applied("AssetIndex::save")
    => LET a == output.val.parsed
           b == output.val.reparsed
       IN  /\ a.ok /\ b.ok
           /\ DOMAIN b.objects = DOMAIN a.objects
           /\ \A k \in DOMAIN a.objects :
                 /\ b.objects[k].hash = a.objects[k].hash
                 /\ b.objects[k].path = a.objects[k].path
                 /\ b.objects[k].size = a.objects[k].size

\* an index with two names, one holding a quote, and a size of three digits
\* was written with escapes and read back
C27_Witness ==
    /\ Applied("AssetIndex::save")
    /\ DOMAIN output.val.parsed.objects = {<<"a", "\"">>, <<"\\">>}
    /\ output.val.parsed.objects[<<"\\">>].size = 120
    /\ output.val.disk[GetIndexPath(IndexHash)][1].key \in
          {<<"a", "\\", "\"">>, <<"\\", "\\">>}
    /\ output.val.reparsed.objects = output.val.parsed.objects

\* no entry of the index that was passed has a hash too short for a path
HashesLong ==
    \A n \in DOMAIN input.args.objects :
        ~AssetPathPanics(input.args.objects[n].hash)

\* C28: download_all makes one download_asset_if_not_exists call for every
\* entry of the index, one after another in the map's order, goes on to the
\* next entry after a call that failed, and returns Ok whatever the calls
\* returned; a call sends a request only if the entry's file is missing.
C28_DownloadAll ==
    (Applied("AssetIndex::download_all") /\ HashesLong)
    => /\ output.res = "Ok"
       /\ [i \in 1..Len(output.calls) |-> output.calls[i].name]
             = input.args.ord
       /\ \A i \in 1..Len(output.calls) :
             /\ output.calls[i].had => output.calls[i].reqs = 0
             /\ (~output.calls[i].had /\ output.calls[i].o # "nodir")
                    => output.calls[i].reqs = 1
       /\ output.logged
             = Cardinality({i \in 1..Len(output.calls) :
                               output.calls[i].res # "Ok"})

\* the first call failed, the second was made and succeeded
C28_Witness ==
    /\ Applied("AssetIndex::download_all")
    /\ input.args.objects = Objects2
    /\ output.res = "Ok"
    /\ Len(output.calls) = 2
    /\ output.calls[1].res = "NetworkError"
    /\ output.calls[2].res = "Ok"
    /\ output.calls[2].reqs = 1

\* the three directories of the store that was asked for
StoreDir(name) == Join(input.args.storage_dir, name)

\* the directories whose creation was tried and failed
FailedDirs ==
    {name \in Range(CreateDirs) :
        ~Exists(input.args.fs, StoreDir(name)) /\ name \in input.args.failing}

\* C29: Storage::new with an explicit directory always returns a store on
\* that directory; it creates each of objects, indexes and libraries that does
\* not exist, a creation that fails is logged and nothing else; and a save
\* into the store when its indexes directory is missing returns an IO error
\* and writes no file.
C29_NewNeverFails ==
    Applied("Storage::new")
    => /\ output.res = "Ok"
       /\ output.store.storage_dir = input.args.storage_dir
       /\ output.logged = Cardinality(FailedDirs)
       /\ \A name \in Range(CreateDirs) :
             Exists(output.fs, StoreDir(name)) <=> name \notin FailedDirs
       /\ StoreDir("indexes") \notin output.fs.dirs
             => /\ output.save.res = "IO"
                /\ output.save.fs = output.fs

\* the indexes directory could not be created: the store was returned, and
\* the save failed although its write would have gone well
C29_Witness ==
    /\ Applied("Storage::new")
    /\ input.args.failing = {"indexes"}
    /\ input.args.o = "ok"
    /\ output.res = "Ok"
    /\ output.logged = 1
    /\ Exists(output.fs, StoreDir("objects"))
    /\ output.save.res = "IO"

\* the probes whose request has returned, and those of them that failed
DoneProbes == {i \in ProbeIds : probes[i].pc = "done"}
FailedProbes == {i \in DoneProbes : probes[i].result = "Err"}

\* C30: a probe whose request failed has sent exactly one
\* InternetUnavailable and a probe whose request succeeded has sent nothing;
\* a probe, failed or still waiting, changes nothing of the worker's runs or
\* handle, and a DownloadAssets command handled while no run is in progress
\* starts a run whatever the probes are.
C30_ProbeDoesNotBlock ==
    /\ [](\A i \in ProbeIds :
            /\ i \in FailedProbes
                  => probes[i].sent = <<[type |-> "InternetUnavailable"]>>
            /\ i \notin FailedProbes => probes[i].sent = << >>)
    /\ [][ probes' # probes
              => UNCHANGED <<download_assets_handle, runs, outbox, disk, cmds>>
         ]_vars
    /\ [][ (cmds' = cmds + 1 /\ ~HandleBusy)
              => /\ runs' = Append(runs, NewRun)
                 /\ download_assets_handle' = Len(runs') ]_vars

\* a probe failed and sent its message; a run was started after that and has
\* ended well, and another probe is still waiting
C30_Witness ==
    \E i \in FailedProbes : \E j \in ProbeIds :
        /\ probes[i].sent = <<[type |-> "InternetUnavailable"]>>
        /\ Len(runs) > probes[i].runs_before
        /\ runs[Len(runs)].pc = "ok"
        /\ probes[j].pc = "send"

C32_FinishedRunNeverBlocks ==
    [][ (cmds' = cmds + 1 /\ Unfinished = {})
            => /\ runs' = Append(runs, NewRun)
               /\ download_assets_handle' = Len(runs) + 1
               /\ Cardinality({r \in 1..Len(runs') : ~RunFinished(r)'}) = 1
      ]_vars

\* the first run ended by a panic and a second run was started
C32_Witness ==
    /\ Len(runs) = 2
    /\ runs[1].pc = "panic"
    /\ download_assets_handle = 2

\* the run over the large index has not ended
JoinRunning == download_tasks.pc \in {"spawn", "join"}

\* C33: one unit is spawned per entry of the index (a spawn for every entry
\* the for loop has yielded, and as many spawns as entries once the loop is
\* over), the JoinSet never holds more than 256 units, and a spawn made when
\* 256 units are in the set comes after the join of a unit that had completed.
C33_JoinSetBounded ==
    /\ [](JoinRunning =>
            /\ download_tasks.len <= 256
            /\ download_tasks.spawned + download_tasks.todo
                  = download_tasks.length
            /\ download_tasks.pc = "join"
                  => download_tasks.spawned = download_tasks.length)
    /\ [][ (JoinRunning /\ JoinRunning' /\ download_tasks.len >= 256
              /\ download_tasks'.spawned # download_tasks.spawned)
           => /\ download_tasks.done >= 1
              /\ download_tasks'.done = download_tasks.done - 1
              /\ download_tasks'.len = 256
              /\ download_tasks'.spawned = download_tasks.spawned + 1 ]_vars

\* the set is full for the second time: two units were joined inside the for
\* loop and 258 were spawned
C33_Witness ==
    /\ download_tasks.pc = "join"
    /\ download_tasks.length = 258
    /\ download_tasks.spawned = 258
    /\ download_tasks.len = 256

\* C34: a pool with max_tasks >= 1 never tracks more than max_tasks handles,
\* whatever pushes and waits were made, and a handle that leaves the tracked
\* set belongs to a task that has finished.
C34_TrackedWithinMax ==
    /\ [](max_tasks >= 1 => Len(tasks) <= max_tasks)
    /\ [][ max_tasks >= 1 =>
             \A t \in Range(tasks) : t \notin Range(tasks') => IsFinished(t)
         ]_vars

\* a pool of one handle is full with the second task after the first left
C34_Witness ==
    /\ max_tasks = 1
    /\ tasks = <<2>>
    /\ pushed = {1, 2}
    /\ taskState[2] = "running"

\* C35 as stated: every push returns in the end with its task added, for a
\* pool built by new(Some(n)) with any n >= 0, when every task finishes.
C35_PushReturns ==
    \A t \in TaskIds : (ppc = "push" /\ pending = t) ~> (t \in pushed)

\* C35: every push on a pool built by new(Some(n)) with n >= 1 returns in the
\* end with its task added, when every task finishes and the loop keeps
\* taking its turns; on a pool built with n = 0 no push ever returns.
C35_PushReturnsIfRoom ==
    /\ \A t \in TaskIds :
          (ppc = "push" /\ pending = t /\ max_tasks >= 1) ~> (t \in pushed)
    /\ [](max_tasks = 0 => pushed = {})

\* a push that found the pool of one handle full has returned
C35_Witness ==
    /\ max_tasks = 1
    /\ ppc = "idle"
    /\ pushed = {1, 2, 3}
    /\ tasks = <<3>>

\* a unit of run r has panicked and has not been joined yet
PanickedUnits(r) ==
    {n \in DOMAIN runs[r].units : runs[r].units[n].st = "panicked"}

\* C36: a unit whose entry makes get_asset_path panic makes no attempt and no
\* retry, and once it has panicked it stays as it is until it is joined: the
\* run does not end with Ok or an error past it, the join that yields it ends
\* the run with a panic and sends nothing, and that join does come; the
\* latest run, once it has panicked, has sent no HideProgressBar.
C36_UnitPanicEndsRun ==
    /\ [](\A r \in RunIds : \A n \in DOMAIN runs[r].units :
            AssetPathPanics(runs[r].objects[n].hash) =>
               /\ runs[r].units[n].st \in {"running", "panicked"}
               /\ runs[r].units[n].attempts = 0
               /\ runs[r].units[n].retries = 0)
    /\ [][ \A r \in RunIds : PanickedUnits(r) # {} =>
              \/ /\ runs'[r].pc = "panic"
                 /\ outbox' = outbox
              \/ /\ runs'[r].pc \in {"spawn", "join"}
                 /\ PanickedUnits(r) \subseteq
                       {n \in DOMAIN runs'[r].units :
                           runs'[r].units[n] = runs[r].units[n]}
         ]_vars
    /\ \A r \in 1..MaxCmds :
          (r \in RunIds /\ PanickedUnits(r) # {})
             ~> (r \in RunIds /\ runs[r].pc = "panic")
    /\ [](\A r \in RunIds : (r = Len(runs) /\ runs[r].pc = "panic") =>
            Len(Hides(r)) = 0)

\* the latest run has ended with a panic after sending progress messages,
\* none of them HideProgressBar
C36_Witness ==
    /\ Len(runs) = 1
    /\ runs[1].pc = "panic"
    /\ Len(SentBy(1)) > 0
    /\ Len(Hides(1)) = 0

\* the action of a rule is neither "allow" nor "disallow"
ActionUnknown(action) == action \notin {"allow", "disallow"}

\* C37: for a rule whose action is neither "allow" nor "disallow",
\* is_satisfied returns true when the rule has no os constraint and panics
\* when it has one; deserialization takes such a rule without error and
\* keeps its action and its os constraint.
C37_UnknownAction ==
    /\ (Applied("Rule::is_satisfied") /\ ActionUnknown(input.args.rule.action))
          => IF input.args.rule.os = None THEN output = Ok(TRUE)
             ELSE output = Panic
    /\ (Applied("Rule::deserialize")
          /\ input.args.obj.action # None
          /\ input.args.obj.action[1].type = "string"
          /\ ActionUnknown(input.args.obj.action[1].v))
          => output = Ok([action |-> input.args.obj.action[1].v,
                          os |-> input.args.obj.os])

\* is_satisfied panicked on a rule with the action "deny" and an os
\* constraint
C37_Witness ==
    /\ Applied("Rule::is_satisfied")
    /\ input.args.rule = [action |-> "deny", os |-> Some([name |-> "linux"])]
    /\ output = Panic

\* the file system as it was when the download was called
FsBeforeDownload == [dirs |-> input.args.dirs, files |-> input.args.files]

\* C38: download_and_hash touches the destination only after the request has
\* produced a response: when the path has no parent component it returns
\* before any request, and when the request fails it returns after one, and
\* in both cases the file system is as it was, a blob at the destination
\* included; when a chunk fails after the response, with the file created,
\* the call returns a network error and the destination holds a cut copy,
\* neither what was there before nor the whole body.
C38_CreateAfterResponse ==
    Applied("net::download_and_hash") =>
       LET path == input.args.path
           o == input.args.o
       IN  /\ Parent(path) = None =>
                /\ output.res = "DirectoryNotExists"
                /\ output.reqs = 0
                /\ output.fs = FsBeforeDownload
           /\ (Parent(path) # None /\ o = "fail") =>
                /\ output.res = "NetworkError"
                /\ output.reqs = 1
                /\ output.fs = FsBeforeDownload
           /\ output.fs # FsBeforeDownload => output.reqs = 1
           /\ (Parent(path) # None /\ o = "cut"
                 /\ CanCreate(FsBeforeDownload, path)) =>
                /\ output.res = "NetworkError"
                /\ output.fs.dirs = input.args.dirs
                /\ path \in DOMAIN output.fs.files
                /\ output.fs.files[path] = CutOf(Blob(H1))
                /\ output.fs.files[path] \notin {Blob(H1), Blob(H2)}

\* the request failed and the blob that was at the destination is still
\* there
C38_Witness ==
    /\ Applied("net::download_and_hash")
    /\ input.args.o = "fail"
    /\ input.args.path = <<"objects", "a1", "a17">>
    /\ input.args.files = [p \in {input.args.path} |-> Blob(H2)]
    /\ output.res = "NetworkError"
    /\ output.fs.files[input.args.path] = Blob(H2)
=============================================================================
